---- MODULE Spec2Model ----
(***************************************************************************)
(* Bid consolidation (agents/consolidation/bid_consolidator.py), the       *)
(* metric agents (agents/calculation) and the screening steps of the       *)
(* planner (agents/planner.py).                                            *)
(*                                                                         *)
(* One BidConsolidationAgent instance (its only attribute is               *)
(* min_confidence) and the frames of the consolidate calls made on it.     *)
(* Every local variable of consolidate is a field of the call's frame;     *)
(* one action is one step of the method: the validation of the payload     *)
(* with the grouping loop, one iteration of the selection loop, the final  *)
(* raise or return.                                                        *)
(*                                                                         *)
(* Encoding of Python values:                                              *)
(*   - a candidate dict is a record; candidates are named by their index   *)
(*     in the input list (the code compares them by identity, `is`);       *)
(*   - None in a string-valued field (bidder, currency, tax_included) is   *)
(*     the string None; tax_included is one of "True", "False", None;      *)
(*   - amounts and confidences are integers, confidences in hundredths     *)
(*     (0.4 is 40); an amount that is not an int or float is NoAmount, an  *)
(*     absent "confidence" key is NoConf;                                  *)
(*   - amounts stay within the range in which float() is exact.            *)
(*                                                                         *)
(* plan is the frame of a run of ScreeningPlannerAgent.run, comp the       *)
(* frames of the compute calls of the metric agents, final_bids the list   *)
(* object those calls are given and memory the state the memory store      *)
(* holds for the conversation of the run.                                  *)
(***************************************************************************)
EXTENDS Integers, Sequences, FiniteSets, TLC

VARIABLES min_confidence, call, plan, comp, final_bids, memory

vars == <<min_confidence, call, plan, comp, final_bids, memory>>

\* ------------------------------------------------------------------ bounds
MaxLen == 3
MaxPermLen == 3

\* ------------------------------------------------------- Python encodings
None == "None"
NoAmount == -1
NoConf == -1
DefaultMinConfidence == 40
DefaultSortConfidence == 0
DefaultRecordedConfidence == 50
UNKNOWN_BIDDER == "UNKNOWN_BIDDER"

Calls == {1, 2}

\* ---------------------------------------------------------------- errors
EmptyInputError == [kind |-> "ValueError", msg |-> "No bid candidates provided"]
NoValidBidsError == [kind |-> "ValueError", msg |-> "No valid bids after consolidation"]
NoError == [kind |-> None, msg |-> None]

\* an exception of the OpenAI client
AnswerError == [kind |-> "APIError", msg |-> None]

\* ------------------------------------------------------ helper operators
Falsy(s) == s = None \/ s = ""

\* b.get("bidder") or "UNKNOWN_BIDDER"
BidderKey(b) == IF Falsy(b.bidder) THEN UNKNOWN_BIDDER ELSE b.bidder

\* isinstance(b.get("amount"), (int, float))
IsNumeric(a) == a # NoAmount

\* b.get("confidence", d)
ConfidenceOr(b, d) == IF b.confidence = NoConf THEN d ELSE b.confidence

\* mutant: the amount is grossed up with 21% VAT instead of being copied
ToFloat_AddsTax(a) == (a * 121) \div 100

\* float(selected["amount"])
ToFloat(a) == a

\* bid_payload.get("bids", [])
BidsOf(payload) == IF payload.kind = "nokey" THEN <<>> ELSE payload.items

\* mutant: any sequence passes for a list
IsList_AnySequence(payload) == TRUE

\* isinstance(bids, list)
IsList(payload) == payload.kind \in {"list", "nokey"}

\* mutant: a new bidder key is put in front of the groups instead of behind them
AppendToGroup_NewKeyFirst(grouped, k, i) ==
    IF \E j \in 1..Len(grouped) : grouped[j].bidder = k
    THEN [j \in 1..Len(grouped) |->
            IF grouped[j].bidder = k
            THEN [grouped[j] EXCEPT !.candidates = Append(@, i)]
            ELSE grouped[j]]
    ELSE <<[bidder |-> k, candidates |-> <<i>>]>> \o grouped

\* grouped[bidder].append(b), on a dict that keeps insertion order
AppendToGroup(grouped, k, i) ==
    IF \E j \in 1..Len(grouped) : grouped[j].bidder = k
    THEN [j \in 1..Len(grouped) |->
            IF grouped[j].bidder = k
            THEN [grouped[j] EXCEPT !.candidates = Append(@, i)]
            ELSE grouped[j]]
    ELSE Append(grouped, [bidder |-> k, candidates |-> <<i>>])

RECURSIVE GroupFrom(_, _, _)
GroupFrom(bids, i, grouped) ==
    IF i > Len(bids) THEN grouped
    ELSE GroupFrom(bids, i + 1, AppendToGroup(grouped, BidderKey(bids[i]), i))

\* for b in bids: grouped[bidder].append(b)
GroupByBidder(bids) == GroupFrom(bids, 1, <<>>)

\* mutant: the filter checks the amount only, not the confidence
ValidOf_NoFloor(bids, candidates, minc) ==
    LET Keep(i) == IsNumeric(bids[i].amount)
    IN SelectSeq(candidates, Keep)

\* mutant: the tax preference is applied to the numeric candidates first and the
\* confidence floor to the preferred ones afterwards
ValidOf_PreferenceFirst(bids, candidates, minc) ==
    LET Numeric(i) == IsNumeric(bids[i].amount)
        Explicit(i) == bids[i].tax_included = "True"
        Enough(i) == ConfidenceOr(bids[i], DefaultSortConfidence) >= minc
        numeric == SelectSeq(candidates, Numeric)
        preferred == SelectSeq(numeric, Explicit)
    IN SelectSeq(IF preferred # <<>> THEN preferred ELSE numeric, Enough)

\* Regla 1: the candidates of a group with a numeric amount and enough confidence
ValidOf(bids, candidates, minc) ==
    LET Keep(i) == /\ IsNumeric(bids[i].amount)
                   /\ ConfidenceOr(bids[i], DefaultSortConfidence) >= minc
    IN SelectSeq(candidates, Keep)

\* Regla 2: the candidates of valid whose tax_included is True
TaxIncludedOf(bids, valid) ==
    LET Explicit(i) == bids[i].tax_included = "True"
    IN SelectSeq(valid, Explicit)

\* mutant: the preference is not applied, the pool is every valid candidate
PoolOf_AllValid(bids, valid) == valid

PoolOf(bids, valid) ==
    IF TaxIncludedOf(bids, valid) # <<>> THEN TaxIncludedOf(bids, valid) ELSE valid

\* mutant: x goes before the elements with an equal key (the sort is not stable)
InsertDesc_Unstable(bids, sorted, x) ==
    LET kx == ConfidenceOr(bids[x], DefaultSortConfidence)
        before == {j \in 1..Len(sorted) :
                     ConfidenceOr(bids[sorted[j]], DefaultSortConfidence) > kx}
        n == Cardinality(before)
    IN SubSeq(sorted, 1, n) \o <<x>> \o SubSeq(sorted, n + 1, Len(sorted))

\* one insertion of a stable descending sort: x goes after every element whose
\* key is >= its own
InsertDesc(bids, sorted, x) ==
    LET kx == ConfidenceOr(bids[x], DefaultSortConfidence)
        before == {j \in 1..Len(sorted) :
                     ConfidenceOr(bids[sorted[j]], DefaultSortConfidence) >= kx}
        n == Cardinality(before)
    IN SubSeq(sorted, 1, n) \o <<x>> \o SubSeq(sorted, n + 1, Len(sorted))

RECURSIVE SortFrom(_, _, _, _)
SortFrom(bids, pool, i, sorted) ==
    IF i > Len(pool) THEN sorted
    ELSE SortFrom(bids, pool, i + 1, InsertDesc(bids, sorted, pool[i]))

\* sorted(pool, key=confidence, reverse=True): stable, descending
SortedByConfidence(bids, pool) == SortFrom(bids, pool, 1, <<>>)

\* mutant: the first candidate of the pool is taken, whatever its confidence
SelectedOf_FirstOfPool(bids, pool) == Head(pool)

\* Regla 3: sorted(...)[0]
SelectedOf(bids, pool) == Head(SortedByConfidence(bids, pool))

\* the candidates of the group other than selected (b is not selected)
RestOf(candidates, selected) ==
    LET Other(i) == i # selected
    IN SelectSeq(candidates, Other)

\* mutant: no amount is ever taken for a duplicate
IsDuplicate_Never(amount, used_amounts) == FALSE

\* Regla 4: amount in used_amounts
\* mutant: every selection is taken for a duplicate
IsDuplicate_Always(amount, used_amounts) == TRUE

IsDuplicate(amount, used_amounts) == amount \in used_amounts

\* mutant: the empty result is not detected
NoBids_Never(amounts) == FALSE

\* not final_bids
NoBids(amounts) == amounts = <<>>

RECURSIVE SumSeq(_)
SumSeq(s) == IF s = <<>> THEN 0 ELSE Head(s) + SumSeq(Tail(s))

\* round(sum(confidences) / len(confidences), 2), in hundredths, half to even
OverallConfidence(confidences) ==
    IF confidences = <<>> THEN 0
    ELSE LET s == SumSeq(confidences)
             n == Len(confidences)
             q == s \div n
             r == s % n
         IN IF 2 * r > n THEN q + 1
            ELSE IF 2 * r < n THEN q
            ELSE IF q % 2 = 0 THEN q ELSE q + 1

\* ------------------------------------------------------------ call frames
NoResult == [final_bids |-> <<>>, currency |-> None, confidence |-> 0]

\* the frame of a call that has not run a line yet
Frame(payload, pc) ==
    [pc |-> pc,
     bid_payload |-> payload,
     bids |-> <<>>,
     grouped |-> <<>>,
     done |-> 0,
     valid |-> <<>>,
     pool |-> <<>>,
     selected |-> 0,
     amount |-> NoAmount,
     discarded |-> <<>>,
     decisions |-> <<>>,
     final_bids |-> <<>>,
     used_amounts |-> {},
     confidences |-> <<>>,
     currency |-> None,
     error |-> NoError,
     result |-> NoResult]

\* ------------------------------------------- planner and metric-agent frames
\* the metric agents registered in setup_screening.py, in the order of the keys
\* of SCREENING_METRICS
Metrics == <<"cv", "spd", "diffp", "rd", "kurt", "skew", "kstest">>

Comps == {1, 2}

NoMetricResult == [metric |-> None]

\* the frame of a compute call of the agent of metric m
CompFrame(m, pc) ==
    [pc |-> pc,
     metric |-> m,
     bids_array |-> <<>>,
     error |-> NoError,
     result |-> NoMetricResult]

NoResponse == [ok |-> None, status |-> None, error |-> None, results |-> {}]

\* rag_query was not executed / the answer of tool_manager.execute("rag_query")
NoRag == [ok |-> None, answer |-> None, sources |-> <<>>]

\* the argument query of run
Query == "query"

\* get_state of a conversation that has no row: {}
NoMemory == [k \in {} |-> None]

\* update_state, lines 53-55 of memory_store.py: current.update(patch)
Merge(current, patch) ==
    [k \in DOMAIN current \cup DOMAIN patch |->
        IF k \in DOMAIN patch THEN patch[k] ELSE current[k]]

\* the frame of a call of ScreeningPlannerAgent.run: parsed tells whether the
\* classifier output is JSON, executed lists the tools executed so far
PlanFrame(intent, requested_metrics, extraction, pc) ==
    [pc |-> pc,
     parsed |-> "True",
     rag |-> NoRag,
     executed |-> <<>>,
     intent |-> intent,
     requested_metrics |-> requested_metrics,
     extraction |-> extraction,
     checked |-> 0,
     computed |-> 0,
     results |-> {},
     error |-> NoError,
     response |-> NoResponse]

NoExtraction == [ok |-> "False", result |-> [kind |-> "nokey", items |-> <<>>]]

\* no planner run and no compute call
NoScreening ==
    /\ plan = PlanFrame(None, <<>>, NoExtraction, "idle")
    /\ comp = [k \in Comps |-> CompFrame(None, "idle")]
    /\ final_bids = <<>>
    /\ memory = NoMemory

\* ----------------------------------------------------------------- inputs
Bidders == {"A", None}
Amounts == {100, 200}
Confidences == {40, 90}
BelowFloor == {30}
TaxFlags == {"True", "False"}
Currencies == {None}
MinConfidences == {DefaultMinConfidence, 90}

\* candidates at or above the default floor; candidates below it and candidates
\* whose amount is not a number (both carry the flag that would make them win)
Candidates ==
    [bidder : Bidders, amount : Amounts, confidence : Confidences,
     tax_included : TaxFlags, currency : Currencies]
    \cup [bidder : Bidders, amount : Amounts, confidence : BelowFloor,
          tax_included : {"True"}, currency : Currencies]
    \cup [bidder : Bidders, amount : {NoAmount}, confidence : {90},
          tax_included : {"True"}, currency : Currencies]

ListsOver(S, n) == UNION {[1..k -> S] : k \in 0..n}

Payloads ==
    [kind : {"list"}, items : ListsOver(Candidates, MaxLen)]
    \cup [kind : {"tuple"}, items : ListsOver(Candidates, 1)]
    \cup [kind : {"nokey"}, items : {<<>>}]

\* ---------------------------------------------------------------- actions
\* BidConsolidationAgent(min_confidence): the default floor on every payload, a
\* higher floor on the payloads shorter than MaxLen
Init ==
    /\ NoScreening
    /\ min_confidence \in MinConfidences
    /\ \E p \in Payloads :
         /\ min_confidence # DefaultMinConfidence => Len(p.items) < MaxLen
         /\ call = [c \in Calls |->
                      IF c = 1 THEN Frame(p, "start")
                      ELSE Frame([kind |-> "nokey", items |-> <<>>], "idle")]

\* lines 20-22: the payload has no list of candidates, or an empty one
RaiseEmpty(c) ==
    /\ call[c].pc = "start"
    /\ ~IsList(call[c].bid_payload) \/ BidsOf(call[c].bid_payload) = <<>>
    /\ call' = [call EXCEPT ![c].pc = "raised", ![c].error = EmptyInputError]
    /\ UNCHANGED <<min_confidence, plan, comp, final_bids, memory>>

\* mutant: the dedup set is kept on the agent, so a call starts with the amounts
\* the other calls have accepted
NewUsedAmounts_KeptOnAgent(c) == UNION {call[d].used_amounts : d \in Calls \ {c}}

\* line 42: used_amounts = set(), a local of the call
\* mutant: the dedup set starts with the amount of every candidate of the payload
NewUsedAmounts_OfAllCandidates(c) ==
    {ToFloat(call[c].bid_payload.items[i].amount) :
        i \in {j \in 1..Len(call[c].bid_payload.items) :
                  IsNumeric(call[c].bid_payload.items[j].amount)}}

NewUsedAmounts(c) == {}

\* lines 20-54: the payload is accepted, the locals are initialised and the
\* candidates are grouped by bidder (STEP 1)
Begin(c) ==
    /\ call[c].pc = "start"
    /\ IsList(call[c].bid_payload)
    /\ BidsOf(call[c].bid_payload) # <<>>
    /\ call' = [call EXCEPT ![c].pc = "loop",
                            ![c].bids = BidsOf(call[c].bid_payload),
                            ![c].used_amounts = NewUsedAmounts(c),
                            ![c].grouped = GroupByBidder(BidsOf(call[c].bid_payload))]
    /\ UNCHANGED <<min_confidence, plan, comp, final_bids, memory>>

\* the group the next iteration of the loop of line 59 processes
HasNext(f) == f.pc = "loop" /\ f.done < Len(f.grouped)
NextGroup(f) == f.grouped[f.done + 1]
NextValid(f) == ValidOf(f.bids, NextGroup(f).candidates, min_confidence)
NextPool(f) == PoolOf(f.bids, NextValid(f))
NextSelected(f) == SelectedOf(f.bids, NextPool(f))
NextAmount(f) == ToFloat(f.bids[NextSelected(f)].amount)

Decision(bidder, kind, amount) == [bidder |-> bidder, kind |-> kind, amount |-> amount]

\* mutant: the preference is applied without being logged
Preferred_Silent(f) == <<>>

\* the audit string of lines 80-82, when the preference applies
Preferred(f) ==
    IF TaxIncludedOf(f.bids, NextValid(f)) # <<>>
    THEN <<Decision(NextGroup(f).bidder, "preferidas_iva", NoAmount)>>
    ELSE <<>>

\* mutant: every accepted selection that has a currency overwrites the result's
CurrencyAfter_LastWins(currency, sel) ==
    IF ~Falsy(sel.currency) THEN sel.currency ELSE currency

\* lines 117-118: if not currency and selected.get("currency")
CurrencyAfter(currency, sel) ==
    IF Falsy(currency) /\ ~Falsy(sel.currency) THEN sel.currency ELSE currency

\* mutant: one dedup set for the whole agent, read and written by every call
UsedAmounts_OfEveryCall(c) == UNION {call[d].used_amounts : d \in Calls}

\* line 94: used_amounts, the local set of the call
UsedAmounts(c) == call[c].used_amounts

\* lines 62-73: no candidate of the group passes Regla 1
DiscardGroup(c) ==
    LET f == call[c] IN
    /\ HasNext(f)
    /\ NextValid(f) = <<>>
    /\ call' = [call EXCEPT
         ![c].done = f.done + 1,
         ![c].valid = <<>>,
         ![c].discarded = f.discarded \o NextGroup(f).candidates,
         ![c].decisions = Append(f.decisions,
               Decision(NextGroup(f).bidder, "descartado_confianza", NoAmount))]
    /\ UNCHANGED <<min_confidence, plan, comp, final_bids, memory>>

\* mutant: after a duplicate the group is retried with its first valid candidate
\* whose amount was not accepted yet
DuplicateGroup_Retries(c) ==
    LET f == call[c]
        Fresh(i) == ~IsDuplicate(ToFloat(f.bids[i].amount), UsedAmounts(c))
        others == SelectSeq(NextValid(f), Fresh)
    IN
    /\ HasNext(f)
    /\ NextValid(f) # <<>>
    /\ IsDuplicate(NextAmount(f), UsedAmounts(c))
    /\ call' = [call EXCEPT
         ![c].done = f.done + 1,
         ![c].valid = NextValid(f),
         ![c].pool = NextPool(f),
         ![c].selected = NextSelected(f),
         ![c].amount = NextAmount(f),
         ![c].used_amounts =
               IF others = <<>> THEN f.used_amounts
               ELSE f.used_amounts \cup {ToFloat(f.bids[Head(others)].amount)},
         ![c].final_bids =
               IF others = <<>> THEN f.final_bids
               ELSE Append(f.final_bids, ToFloat(f.bids[Head(others)].amount)),
         ![c].confidences =
               IF others = <<>> THEN f.confidences
               ELSE Append(f.confidences,
                           ConfidenceOr(f.bids[Head(others)], DefaultRecordedConfidence)),
         ![c].discarded = Append(f.discarded, NextSelected(f)),
         ![c].decisions = f.decisions \o Preferred(f) \o
               <<Decision(NextGroup(f).bidder, "duplicado", NextAmount(f))>>]
    /\ UNCHANGED <<min_confidence, plan, comp, final_bids, memory>>

\* lines 62-99: the selected amount was already accepted for another group
DuplicateGroup(c) ==
    LET f == call[c] IN
    /\ HasNext(f)
    /\ NextValid(f) # <<>>
    /\ IsDuplicate(NextAmount(f), UsedAmounts(c))
    /\ call' = [call EXCEPT
         ![c].done = f.done + 1,
         ![c].valid = NextValid(f),
         ![c].pool = NextPool(f),
         ![c].selected = NextSelected(f),
         ![c].amount = NextAmount(f),
         ![c].discarded = Append(f.discarded, NextSelected(f)),
         ![c].decisions = f.decisions \o Preferred(f) \o
               <<Decision(NextGroup(f).bidder, "duplicado", NextAmount(f))>>]
    /\ UNCHANGED <<min_confidence, plan, comp, final_bids, memory>>

\* lines 62-123: the selected amount is accepted
AcceptGroup(c) ==
    LET f == call[c]
        sel == f.bids[NextSelected(f)]
    IN
    /\ HasNext(f)
    /\ NextValid(f) # <<>>
    /\ ~IsDuplicate(NextAmount(f), UsedAmounts(c))
    /\ call' = [call EXCEPT
         ![c].done = f.done + 1,
         ![c].valid = NextValid(f),
         ![c].pool = NextPool(f),
         ![c].selected = NextSelected(f),
         ![c].amount = NextAmount(f),
         ![c].used_amounts = f.used_amounts \cup {NextAmount(f)},
         ![c].final_bids = Append(f.final_bids, NextAmount(f)),
         ![c].confidences = Append(f.confidences,
               ConfidenceOr(sel, DefaultRecordedConfidence)),
         ![c].decisions = f.decisions \o Preferred(f) \o
               <<Decision(NextGroup(f).bidder,
                          IF sel.tax_included = "True" THEN "seleccionado_con_iva"
                          ELSE "seleccionado_sin_iva",
                          NextAmount(f))>>,
         ![c].currency = CurrencyAfter(f.currency, sel),
         ![c].discarded = f.discarded \o
               RestOf(NextGroup(f).candidates, NextSelected(f))]
    /\ UNCHANGED <<min_confidence, plan, comp, final_bids, memory>>

\* lines 125-126: every group was discarded
RaiseNoValid(c) ==
    /\ call[c].pc = "loop"
    /\ call[c].done = Len(call[c].grouped)
    /\ NoBids(call[c].final_bids)
    /\ call' = [call EXCEPT ![c].pc = "raised", ![c].error = NoValidBidsError]
    /\ UNCHANGED <<min_confidence, plan, comp, final_bids, memory>>

\* lines 125-146: STEP 3 and the returned structure
Return(c) ==
    /\ call[c].pc = "loop"
    /\ call[c].done = Len(call[c].grouped)
    /\ ~NoBids(call[c].final_bids)
    /\ call' = [call EXCEPT
         ![c].pc = "returned",
         ![c].result = [final_bids |-> call[c].final_bids,
                        currency |-> call[c].currency,
                        confidence |-> OverallConfidence(call[c].confidences)]]
    /\ UNCHANGED <<min_confidence, plan, comp, final_bids, memory>>

\* one step of the call c
Step(c) ==
    \/ RaiseEmpty(c)
    \/ Begin(c)
    \/ DiscardGroup(c)
    \/ DuplicateGroup(c)
    \/ AcceptGroup(c)
    \/ RaiseNoValid(c)
    \/ Return(c)

Next == \E c \in Calls : Step(c)

Spec == Init /\ [][Next]_vars

\* ------------------------------------------- two calls, one after the other
\* The same agent consolidates a list and then the same list with the
\* candidates of one bidder's group permuted among the positions the group
\* occupies.
PermCandidates ==
    [bidder : {"A"}, amount : Amounts, confidence : Confidences,
     tax_included : TaxFlags, currency : Currencies]
    \cup [bidder : {"A"}, amount : {200}, confidence : BelowFloor,
          tax_included : {"True"}, currency : Currencies]
    \cup [bidder : {None}, amount : {100}, confidence : {90},
          tax_included : {"False"}, currency : Currencies]

Rearrangements(n) ==
    {pi \in [1..n -> 1..n] : \A i, j \in 1..n : pi[i] = pi[j] => i = j}

\* pi moves candidates of one bidder's group only
WithinOneGroup(p, pi) ==
    \E g \in 1..Len(p) :
        \A i \in 1..Len(p) : pi[i] # i => BidderKey(p[i]) = BidderKey(p[g])

Permuted(p, pi) == [i \in 1..Len(p) |-> p[pi[i]]]

Finished(f) == f.pc \in {"returned", "raised"}

InitPerm ==
    /\ NoScreening
    /\ min_confidence = DefaultMinConfidence
    /\ \E p \in ListsOver(PermCandidates, MaxPermLen) :
         \E pi \in Rearrangements(Len(p)) :
            /\ p = <<>> \/ WithinOneGroup(p, pi)
            /\ call = [c \in Calls |->
                         Frame([kind |-> "list",
                                items |-> IF c = 1 THEN p ELSE Permuted(p, pi)],
                               "start")]

\* the second call starts when the first is over
Turn(c) == c = 2 => Finished(call[1])

NextPerm ==
    \E c \in Calls :
        \/ Turn(c) /\ RaiseEmpty(c)
        \/ Turn(c) /\ Begin(c)
        \/ Turn(c) /\ DiscardGroup(c)
        \/ Turn(c) /\ DuplicateGroup(c)
        \/ Turn(c) /\ AcceptGroup(c)
        \/ Turn(c) /\ RaiseNoValid(c)
        \/ Turn(c) /\ Return(c)

SpecPerm == InitPerm /\ [][NextPerm]_vars

\* ------------------------------------------------- vocabulary of the claims
Range(s) == {s[i] : i \in 1..Len(s)}
Last(s) == s[Len(s)]

\* the call has taken at least one step of the selection loop
InLoop(f) == f.pc \in {"loop", "returned", "raised"} /\ f.done >= 1

\* the group the last iteration processed
LastGroup(f) == f.grouped[f.done]

\* the candidates of a group that pass the filter of step 2 of the algorithm
Survivors(f, g) ==
    {i \in Range(g.candidates) :
        /\ f.bids[i].amount # NoAmount
        /\ ConfidenceOr(f.bids[i], 0) >= min_confidence}

\* the selection pool of step 3: the tax-included survivors when there are any
ClaimPool(f, g) ==
    IF \E i \in Survivors(f, g) : f.bids[i].tax_included = "True"
    THEN {i \in Survivors(f, g) : f.bids[i].tax_included = "True"}
    ELSE Survivors(f, g)

\* the decisions that record a selection (accepted, or discarded as a duplicate)
IsAcceptance(d) == d.kind \in {"seleccionado_con_iva", "seleccionado_sin_iva"}
IsSelection(d) == IsAcceptance(d) \/ d.kind = "duplicado"
Selections(f) == SelectSeq(f.decisions, IsSelection)
Acceptances(f) == SelectSeq(f.decisions, IsAcceptance)

\* the last iteration selected a candidate / accepted its amount
LastSelected(f) == InLoop(f) /\ f.decisions # <<>> /\ IsSelection(Last(f.decisions))
LastAccepted(f) == InLoop(f) /\ f.decisions # <<>> /\ IsAcceptance(Last(f.decisions))

\* the position of the first candidate of bidder key k in the input
FirstAppearance(f, k) ==
    CHOOSE i \in 1..Len(f.bids) :
        /\ BidderKey(f.bids[i]) = k
        /\ \A j \in 1..(i - 1) : BidderKey(f.bids[j]) # k

\* ------------------------------------------------------------------ claims

\* C1: Confidence floor. A candidate whose confidence is strictly below
\* min_confidence is never the selected candidate of its group, so the amount
\* an iteration accepts into final_bids is the amount of a candidate at or above
\* the floor; a candidate with a numeric amount whose confidence equals
\* min_confidence is kept by the filter.
C1_ConfidenceFloor ==
    \A c \in Calls :
        LET f == call[c] IN
        /\ LastSelected(f) =>
              /\ ConfidenceOr(f.bids[f.selected], 0) >= min_confidence
              /\ f.selected \in Range(LastGroup(f).candidates)
        /\ LastAccepted(f) => Last(f.final_bids) = f.bids[f.selected].amount
        /\ InLoop(f) =>
              \A i \in Range(LastGroup(f).candidates) :
                  (f.bids[i].amount # NoAmount /\ f.bids[i].confidence = min_confidence)
                      => i \in Range(f.valid)

\* a group holds a numeric candidate below the floor with a higher-ranked flag
\* and the selected candidate sits exactly on the floor
C1_Witness ==
    \E c \in Calls :
        LET f == call[c] IN
        /\ LastAccepted(f)
        /\ f.bids[f.selected].confidence = min_confidence
        /\ \E i \in Range(LastGroup(f).candidates) :
              /\ f.bids[i].amount # NoAmount
              /\ f.bids[i].confidence < min_confidence
              /\ f.bids[i].tax_included = "True"
              /\ f.bids[f.selected].tax_included # "True"

\* C2: Deduplication. When two groups select equal amounts the later one's
\* selection is discarded as a duplicate and the amount is in final_bids exactly
\* once; the amounts in final_bids are pairwise distinct.
C2_Deduplication ==
    \A c \in Calls :
        LET f == call[c]
            sel == Selections(f)
        IN
        /\ \A i, j \in 1..Len(sel) :
              (i < j /\ sel[i].amount = sel[j].amount) =>
                  /\ sel[j].kind = "duplicado"
                  /\ Cardinality({k \in 1..Len(f.final_bids) :
                                     f.final_bids[k] = sel[j].amount}) = 1
        /\ \A i, j \in 1..Len(f.final_bids) :
              i # j => f.final_bids[i] # f.final_bids[j]
        /\ f.pc = "returned" => f.result.final_bids = f.final_bids

\* a call returns after having discarded a selection as a duplicate
C2_Witness ==
    \E c \in Calls :
        LET f == call[c] IN
        /\ f.pc = "returned"
        /\ \E i \in 1..Len(f.decisions) : f.decisions[i].kind = "duplicado"

\* C3: The consolidator never derives amounts. Every value in final_bids is the
\* amount of a candidate of the input with a numeric amount and confidence at or
\* above the floor, and the amount an iteration accepts is the amount of the
\* candidate it selected.
C3_NeverDerivesAmounts ==
    \A c \in Calls :
        LET f == call[c] IN
        /\ \A k \in 1..Len(f.final_bids) :
              \E i \in 1..Len(f.bids) :
                  /\ f.bids[i].amount # NoAmount
                  /\ f.bids[i].amount = f.final_bids[k]
                  /\ ConfidenceOr(f.bids[i], 0) >= min_confidence
        /\ LastAccepted(f) =>
              /\ f.selected \in Survivors(f, LastGroup(f))
              /\ Last(f.final_bids) = f.bids[f.selected].amount
              /\ Last(f.decisions).amount = f.bids[f.selected].amount

\* a call returns two amounts from an input that also holds a candidate without
\* a numeric amount
C3_Witness ==
    \E c \in Calls :
        LET f == call[c] IN
        /\ f.pc = "returned"
        /\ Len(f.result.final_bids) = 2
        /\ \E i \in 1..Len(f.bids) : f.bids[i].amount = NoAmount

\* C4: final_bids holds at most one amount per bidder group, in the order in
\* which the bidder keys first appear in the input: it is the sequence of the
\* accepted selections, whose bidders are pairwise different and ordered by
\* first appearance.
C4_FirstAppearanceOrder ==
    \A c \in Calls :
        LET f == call[c]
            acc == Acceptances(f)
        IN
        /\ Len(f.final_bids) = Len(acc)
        /\ \A k \in 1..Len(acc) : f.final_bids[k] = acc[k].amount
        /\ \A i, j \in 1..Len(acc) :
              i < j => FirstAppearance(f, acc[i].bidder) < FirstAppearance(f, acc[j].bidder)
        /\ \A i, j \in 1..Len(f.decisions) :
              (i < j /\ IsSelection(f.decisions[i]) /\ IsSelection(f.decisions[j]))
                  => f.decisions[i].bidder # f.decisions[j].bidder

\* two groups are accepted, and the first group's bidder appears again after
\* the second group's first candidate
C4_Witness ==
    \E c \in Calls :
        LET f == call[c] IN
        /\ f.pc = "returned"
        /\ Len(f.result.final_bids) = 2
        /\ Len(f.bids) = 3
        /\ BidderKey(f.bids[1]) = BidderKey(f.bids[3])
        /\ BidderKey(f.bids[1]) # BidderKey(f.bids[2])

\* C5: Tax-inclusion preference. When a surviving candidate of the group has
\* tax_included true the selected candidate has tax_included true, whatever the
\* confidence of the other survivors; when none has, the pool is all survivors.
C5_TaxPreference ==
    \A c \in Calls :
        LET f == call[c] IN
        LastSelected(f) =>
            LET S == Survivors(f, LastGroup(f)) IN
            IF \E i \in S : f.bids[i].tax_included = "True"
            THEN /\ f.bids[f.selected].tax_included = "True"
                 /\ Range(f.pool) = {i \in S : f.bids[i].tax_included = "True"}
            ELSE Range(f.pool) = S

\* the selected tax-included candidate has strictly less confidence than a
\* surviving candidate of the group that is not tax-included
C5_Witness ==
    \E c \in Calls :
        LET f == call[c] IN
        /\ LastSelected(f)
        /\ f.bids[f.selected].tax_included = "True"
        /\ \E i \in Survivors(f, LastGroup(f)) :
              /\ f.bids[i].tax_included # "True"
              /\ f.bids[i].confidence > f.bids[f.selected].confidence

\* C6: Highest confidence, stable tie-break. The selected candidate has the
\* maximum confidence of the selection pool, and among the pool candidates with
\* that confidence it is the first in input order.
C6_HighestConfidenceStable ==
    \A c \in Calls :
        LET f == call[c] IN
        LastSelected(f) =>
            LET P == ClaimPool(f, LastGroup(f)) IN
            /\ f.selected \in P
            /\ \A i \in P :
                  /\ ConfidenceOr(f.bids[i], 0) <= ConfidenceOr(f.bids[f.selected], 0)
                  /\ ConfidenceOr(f.bids[i], 0) = ConfidenceOr(f.bids[f.selected], 0)
                        => f.selected <= i

\* two pool candidates tie on the maximum confidence with different amounts,
\* behind a pool candidate of lower confidence
C6_Witness ==
    \E c \in Calls :
        LET f == call[c] IN
        /\ LastSelected(f)
        /\ \E i, j \in ClaimPool(f, LastGroup(f)) :
              /\ i < f.selected
              /\ f.bids[i].confidence < f.bids[f.selected].confidence
              /\ j > f.selected
              /\ f.bids[j].confidence = f.bids[f.selected].confidence
              /\ f.bids[j].amount # f.bids[f.selected].amount

\* C7 (as claimed): Order invariance within a group. Two calls whose inputs
\* differ by a permutation of one group's candidates select the same amount for
\* every group, also when two candidates of the group have equal confidence and
\* different amounts.
SelectedAmounts(f, k) ==
    {d.amount : d \in {e \in Range(f.decisions) : IsSelection(e) /\ e.bidder = k}}

GroupKeys(f) == {BidderKey(f.bids[i]) : i \in 1..Len(f.bids)}

C7_OrderInvariance ==
    (Finished(call[1]) /\ Finished(call[2])) =>
        \A k \in GroupKeys(call[1]) :
            SelectedAmounts(call[1], k) = SelectedAmounts(call[2], k)

\* the pool candidates of group g that have the pool's maximum confidence
TopOfPool(f, g) ==
    {i \in ClaimPool(f, g) :
        \A j \in ClaimPool(f, g) :
            ConfidenceOr(f.bids[j], 0) <= ConfidenceOr(f.bids[i], 0)}

\* no two pool candidates of g tie on the maximum confidence with different amounts
NoTieOnAmount(f, g) ==
    \A i, j \in TopOfPool(f, g) : f.bids[i].amount = f.bids[j].amount

\* C7 (amended): the amount selected for a group is the same under every
\* permutation of the group's candidates provided the pool candidates that share
\* the maximum confidence all carry the same amount.
C7_OrderInvarianceUpToTies ==
    (Finished(call[1]) /\ Finished(call[2])) =>
        \A g \in Range(call[1].grouped) :
            NoTieOnAmount(call[1], g) =>
                SelectedAmounts(call[1], g.bidder) = SelectedAmounts(call[2], g.bidder)

\* both calls are over, the group's candidates were reordered so that another
\* candidate comes first, the pool has two candidates of different confidence
\* and amount, and both calls selected the same amount for the group
C7_Witness ==
    /\ Finished(call[1]) /\ Finished(call[2])
    /\ call[1].bids # call[2].bids
    /\ \E g \in Range(call[1].grouped) :
          /\ NoTieOnAmount(call[1], g)
          /\ \E i, j \in ClaimPool(call[1], g) :
                /\ i < j
                /\ call[1].bids[i].confidence < call[1].bids[j].confidence
                /\ call[1].bids[i].amount # call[1].bids[j].amount
                /\ call[2].bids[i] = call[1].bids[j]
          /\ SelectedAmounts(call[1], g.bidder) # {}
          /\ SelectedAmounts(call[1], g.bidder) = SelectedAmounts(call[2], g.bidder)

\* C8: consolidate raises the input-validation error ("No bid candidates
\* provided") when the payload's candidates are empty or not a list, before any
\* grouping, selection or decision logging: nothing is grouped, logged,
\* discarded, accepted or returned.
C8_EmptyInputRaises ==
    \A c \in Calls :
        LET f == call[c] IN
        (f.pc \notin {"idle", "start"}
         /\ (f.bid_payload.kind # "list" \/ f.bid_payload.items = <<>>)) =>
            /\ f.pc = "raised"
            /\ f.error = EmptyInputError
            /\ f.error.msg = "No bid candidates provided"
            /\ f.grouped = <<>> /\ f.done = 0
            /\ f.decisions = <<>> /\ f.discarded = <<>>
            /\ f.final_bids = <<>> /\ f.result = NoResult

\* the call has raised on a non-empty collection that is not a list
C8_Witness ==
    \E c \in Calls :
        LET f == call[c] IN
        /\ f.pc = "raised"
        /\ f.bid_payload.kind = "tuple"
        /\ f.bid_payload.items # <<>>
        /\ f.bid_payload.items[1].amount # NoAmount
        /\ f.bid_payload.items[1].confidence >= min_confidence

\* C9: A non-empty list whose candidates are all below the floor or without a
\* numeric amount makes consolidate raise the no-valid-bids error; a returned
\* result always has a non-empty final_bids.
C9_NoValidBidsRaises ==
    \A c \in Calls :
        LET f == call[c] IN
        /\ f.pc = "returned" => f.result.final_bids # <<>>
        /\ (/\ f.pc \in {"returned", "raised"}
            /\ f.bid_payload.kind = "list"
            /\ f.bid_payload.items # <<>>
            /\ \A i \in 1..Len(f.bid_payload.items) :
                  \/ f.bid_payload.items[i].amount = NoAmount
                  \/ ConfidenceOr(f.bid_payload.items[i], 0) < min_confidence) =>
               /\ f.pc = "raised"
               /\ f.error = NoValidBidsError
               /\ f.error.msg = "No valid bids after consolidation"
               /\ f.done = Len(f.grouped)

\* the error is raised for a list that holds a candidate below the floor and a
\* confident candidate without a numeric amount, in two groups
C9_Witness ==
    \E c \in Calls :
        LET f == call[c] IN
        /\ f.pc = "raised"
        /\ f.error = NoValidBidsError
        /\ Len(f.grouped) = 2
        /\ \E i, j \in 1..Len(f.bids) :
              /\ f.bids[i].amount = NoAmount
              /\ f.bids[j].amount # NoAmount

\* C10: The error raised for an empty or malformed candidate list and the error
\* raised when every group was discarded are of different kinds: a call that
\* raises after every group was discarded raises a kind other than the kind
\* raised by the input validation.
C10_ErrorKindsDistinct ==
    \A c \in Calls :
        LET f == call[c] IN
        (f.pc = "raised" /\ f.bids # <<>>) => f.error.kind # EmptyInputError.kind

\* the decisions that record the outcome of a group: a discard or an acceptance
IsOutcome(d) == d.kind # "preferidas_iva"
Outcomes(f) == SelectSeq(f.decisions, IsOutcome)

\* the groups processed so far in which the tax-inclusion preference applied
PreferenceGroups(f) ==
    {k \in 1..f.done :
        \E i \in Survivors(f, f.grouped[k]) : f.bids[i].tax_included = "True"}

AcceptedCandidates(f) ==
    {i \in 1..Len(f.bids) :
        \E g \in Range(f.grouped) :
            /\ \E d \in Range(f.decisions) : IsAcceptance(d) /\ d.bidder = g.bidder
            /\ i \in TopOfPool(f, g)
            /\ \A j \in TopOfPool(f, g) : i <= j}

\* C12: After a successful call every input candidate is either the accepted
\* selection of its group or in discarded, never both and never neither.
C12_DiscardedIsComplement ==
    \A c \in Calls :
        LET f == call[c] IN
        f.pc = "returned" =>
            /\ \A i \in 1..Len(f.bids) :
                  (i \in AcceptedCandidates(f)) # (i \in Range(f.discarded))
            /\ Len(f.discarded) + Len(f.final_bids) = Len(f.bids)

\* ------------------------------------------------- anonymous bidder strings
\* One call on candidates whose bidder is missing, empty, blank, or a name in
\* either case.
MaxAnonLen == 3

AnonBidders == {None, "", " ", "A", "a"}

AnonCandidates ==
    [bidder : AnonBidders, amount : Amounts, confidence : {90},
     tax_included : {"False"}, currency : Currencies]
    \cup [bidder : {"A"}, amount : {100}, confidence : BelowFloor,
          tax_included : {"True"}, currency : Currencies]

InitAnon ==
    /\ NoScreening
    /\ min_confidence = DefaultMinConfidence
    /\ \E p \in ListsOver(AnonCandidates, MaxAnonLen) :
         call = [c \in Calls |->
                   IF c = 1 THEN Frame([kind |-> "list", items |-> p], "start")
                   ELSE Frame([kind |-> "nokey", items |-> <<>>], "idle")]

SpecAnon == InitAnon /\ [][Next]_vars

\* a bidder that is null, empty or made of whitespace only
IsAnonymous(s) == s \in {None, "", " "}

\* the group of the call's grouping that holds candidate i
GroupOf(f, i) == CHOOSE g \in Range(f.grouped) : i \in Range(g.candidates)

\* C13: Grouping of anonymous candidates. Every candidate whose bidder is null,
\* the empty string or a whitespace-only string is in the single UNKNOWN_BIDDER
\* group, so all such candidates together contribute at most one amount to
\* final_bids; every other candidate is in the group of exactly its own bidder
\* string.
C13_AnonymousShareOneGroup ==
    \A c \in Calls :
        LET f == call[c] IN
        f.pc \in {"loop", "returned", "raised"} =>
            /\ \A i \in 1..Len(f.bids) :
                  GroupOf(f, i).bidder =
                      IF IsAnonymous(f.bids[i].bidder) THEN UNKNOWN_BIDDER
                      ELSE f.bids[i].bidder
            /\ Cardinality({k \in 1..Len(f.decisions) :
                    /\ IsAcceptance(f.decisions[k])
                    /\ \E i \in 1..Len(f.bids) :
                          /\ IsAnonymous(f.bids[i].bidder)
                          /\ GroupOf(f, i).bidder = f.decisions[k].bidder}) <= 1

\* ------------------------------------------------------ currencies
\* One call on candidates that carry no currency, an empty one, or one of two
\* currency codes.
MaxCurLen == 3

CurrencyValues == {None, "", "EUR", "USD"}

CurCandidates ==
    [bidder : Bidders, amount : Amounts, confidence : {90},
     tax_included : {"False"}, currency : CurrencyValues]
    \cup [bidder : {"A"}, amount : {200}, confidence : {40},
          tax_included : {"False"}, currency : {"USD"}]
    \cup [bidder : {"A"}, amount : {100}, confidence : BelowFloor,
          tax_included : {"True"}, currency : {"EUR"}]

InitCur ==
    /\ NoScreening
    /\ min_confidence = DefaultMinConfidence
    /\ \E p \in ListsOver(CurCandidates, MaxCurLen) :
         call = [c \in Calls |->
                   IF c = 1 THEN Frame([kind |-> "list", items |-> p], "start")
                   ELSE Frame([kind |-> "nokey", items |-> <<>>], "idle")]

SpecCur == InitCur /\ [][Next]_vars

\* the groups processed so far whose selection was accepted
AcceptedGroups(f) ==
    {k \in 1..f.done :
        \E d \in Range(f.decisions) :
            IsAcceptance(d) /\ d.bidder = f.grouped[k].bidder}

\* the selection of group k: its first pool candidate of maximum confidence
SelectionOf(f, k) ==
    CHOOSE i \in TopOfPool(f, f.grouped[k]) :
        \A j \in TopOfPool(f, f.grouped[k]) : i <= j

NonNull(s) == s # None
NonEmpty(s) == s # None /\ s # ""

\* the currency of the first accepted selection, in group order, whose currency
\* is Present; None when there is none
FirstCurrency(f, Present(_)) ==
    LET K == {k \in AcceptedGroups(f) : Present(f.bids[SelectionOf(f, k)].currency)}
    IN IF K = {} THEN None
       ELSE f.bids[SelectionOf(f, CHOOSE k \in K : \A j \in K : k <= j)].currency

MaxConfLen == 3

ConfCandidates ==
    [bidder : Bidders, amount : Amounts, confidence : {NoConf, 0, 40, 90},
     tax_included : {"False"}, currency : Currencies]

InitConf ==
    /\ NoScreening
    /\ min_confidence \in {0, DefaultMinConfidence}
    /\ \E p \in ListsOver(ConfCandidates, MaxConfLen) :
         call = [c \in Calls |->
                   IF c = 1 THEN Frame([kind |-> "list", items |-> p], "start")
                   ELSE Frame([kind |-> "nokey", items |-> <<>>], "idle")]

SpecConf == InitConf /\ [][Next]_vars

\* the sum of the confidences of the selections of the groups K, an absent
\* confidence counting as 0.0
RECURSIVE SumOfConfidences(_, _)
SumOfConfidences(f, K) ==
    IF K = {} THEN 0
    ELSE LET k == CHOOSE k \in K : TRUE
         IN ConfidenceOr(f.bids[SelectionOf(f, k)], 0) + SumOfConfidences(f, K \ {k})

\* r is q / n rounded to the nearest integer
IsRounded(r, q, n) == 2 * (r * n - q) <= n /\ 2 * (q - r * n) <= n

\* C15: the result's confidence is the arithmetic mean of the confidence values
\* of exactly the accepted selections (one per amount in final_bids), rounded to
\* 2 decimals, an absent confidence counting as 0.0 for the filter and for the
\* mean.
C15_MeanOfAcceptedConfidences ==
    \A c \in Calls :
        LET f == call[c] IN
        f.pc = "returned" =>
            /\ Cardinality(AcceptedGroups(f)) = Len(f.final_bids)
            /\ IsRounded(f.result.confidence,
                         SumOfConfidences(f, AcceptedGroups(f)),
                         Len(f.final_bids))

\* C16: Idempotence across calls. Two calls made one after the other on the
\* same agent with the same candidate list end the same way, with identical
\* final_bids, decisions and confidence: the amounts accepted by the first call
\* are not duplicates for the second.
C16_SameListSameResult ==
    (/\ Finished(call[1])
     /\ Finished(call[2])
     /\ call[1].bid_payload = call[2].bid_payload) =>
        /\ call[1].pc = call[2].pc
        /\ call[1].error = call[2].error
        /\ call[1].final_bids = call[2].final_bids
        /\ call[1].decisions = call[2].decisions
        /\ call[1].result = call[2].result

\* both calls returned on the same list, which holds a duplicate amount and an
\* accepted one
C16_Witness ==
    /\ call[1].pc = "returned"
    /\ call[2].pc = "returned"
    /\ call[1].bid_payload = call[2].bid_payload
    /\ call[2].final_bids # <<>>
    /\ \E d \in Range(call[2].decisions) : d.kind = "duplicado"

\* ------------------------------------------------------------ metric agents
\* compute(self, bids) of the agents of agents/calculation. The caller's list
\* is the variable final_bids; bids_array is the agent's numpy array.

\* SCREENING_METRICS[m]["min_n"]
PlannerMinN(m) ==
    CASE m = "cv" -> 2
      [] m = "spd" -> 2
      [] m = "diffp" -> 2
      [] m = "rd" -> 3
      [] m = "kurt" -> 4
      [] m = "skew" -> 3
      [] m = "kstest" -> 3

\* mutant: the kurtosis agent asks for five bids
AgentMinN_KurtFive(m) ==
    CASE m = "cv" -> 2
      [] m = "spd" -> 2
      [] m = "diffp" -> 2
      [] m = "rd" -> 3
      [] m = "kurt" -> 5
      [] m = "skew" -> 3
      [] m = "kstest" -> 3

\* the n of `if len(bids) < n` at the head of each agent's compute
AgentMinN(m) ==
    CASE m = "cv" -> 2
      [] m = "spd" -> 2
      [] m = "diffp" -> 2
      [] m = "rd" -> 3
      [] m = "kurt" -> 4
      [] m = "skew" -> 3
      [] m = "kstest" -> 3

InsufficientError(m) == [kind |-> "ValueError", msg |-> "insufficient bids", metric |-> m]
DegenerateError(m) == [kind |-> "ValueError", msg |-> "undefined", metric |-> m]

\* one insertion of an ascending sort
InsertAsc(sorted, x) ==
    LET n == Cardinality({j \in 1..Len(sorted) : sorted[j] <= x})
    IN SubSeq(sorted, 1, n) \o <<x>> \o SubSeq(sorted, n + 1, Len(sorted))

RECURSIVE SortAscFrom(_, _, _)
SortAscFrom(a, i, sorted) ==
    IF i > Len(a) THEN sorted ELSE SortAscFrom(a, i + 1, InsertAsc(sorted, a[i]))

\* np.sort(a): a sorted copy
SortAsc(a) == SortAscFrom(a, 1, <<>>)

\* np.array(bids, dtype=float), sorted by the agents that sort it
\* mutant: no agent sorts, the two lowest bids are read off the list as given
ArrayOf_Unsorted(m, bids) == bids

ArrayOf(m, bids) == IF m \in {"diffp", "rd"} THEN SortAsc(bids) ELSE bids

MinOf(a) == CHOOSE x \in Range(a) : \A y \in Range(a) : x <= y
MaxOf(a) == CHOOSE x \in Range(a) : \A y \in Range(a) : y <= x

\* ---- float arithmetic. A float is an integer number of units; the results
\* of additions and divisions are rounded to Precision significant bits, ties
\* to even, as IEEE 754 does (float64 has 53 bits; the format is scaled down,
\* every amount below 2^Precision units is exact).
Precision == 12

RECURSIVE Pow2(_)
Pow2(k) == IF k = 0 THEN 1 ELSE 2 * Pow2(k - 1)

\* the number of bits of the natural number v
RECURSIVE BitLength(_)
BitLength(v) == IF v = 0 THEN 0 ELSE 1 + BitLength(v \div 2)

\* the float nearest to the natural number v
RoundNat(v) ==
    IF BitLength(v) <= Precision THEN v
    ELSE LET ulp == Pow2(BitLength(v) - Precision)
             q == v \div ulp
             r == v % ulp
         IN IF 2 * r < ulp THEN q * ulp
            ELSE IF 2 * r > ulp THEN (q + 1) * ulp
            ELSE IF q % 2 = 0 THEN q * ulp ELSE (q + 1) * ulp

\* the float nearest to the integer v
RoundFloat(v) == IF v < 0 THEN 0 - RoundNat(0 - v) ELSE RoundNat(v)

\* a.sum(): the elements are added one by one, each partial sum rounded
RECURSIVE FloatSumFrom(_, _, _)
FloatSumFrom(a, i, acc) ==
    IF i > Len(a) THEN acc ELSE FloatSumFrom(a, i + 1, RoundFloat(acc + a[i]))

FloatSum(a) == FloatSumFrom(a, 1, 0)

\* the positive float x is the float nearest to s / n, ties to even
IsQuotient(x, s, n) ==
    IF s = n * x THEN TRUE
    ELSE LET k == BitLength(x)
             scale == Pow2(Precision - k)
             err == IF s > n * x THEN s - n * x ELSE n * x - s
             below == s < n * x /\ x = Pow2(k - 1)
         IN IF below THEN 4 * scale * err < n
            ELSE \/ 2 * scale * err < n
                 \/ 2 * scale * err = n /\ (x * scale) % 2 = 0

\* a.mean() == x, for a float x of the array a
MeanIs(a, x) ==
    IF x = 0 THEN FloatSum(a) = 0
    ELSE IF x < 0 THEN IsQuotient(0 - x, 0 - FloatSum(a), Len(a))
    ELSE IsQuotient(x, FloatSum(a), Len(a))

\* a.std(ddof=1) == 0: every element equals the computed mean
StdIsZero(a) == \A i \in 1..Len(a) : MeanIs(a, a[i])

\* the sum of the squares of n * a[i] - a.sum()
RECURSIVE SquaredDeviationsFrom(_, _)
SquaredDeviationsFrom(a, i) ==
    IF i > Len(a) THEN 0
    ELSE (Len(a) * a[i] - FloatSum(a)) * (Len(a) * a[i] - FloatSum(a))
         + SquaredDeviationsFrom(a, i + 1)

\* n * n * (n-1) times a.std(ddof=1) ** 2, the deviations taken from the
\* computed sum
VarianceNum(a) == SquaredDeviationsFrom(a, 1)

\* the test that guards each agent's division
Degenerate(m, a) ==
    CASE m = "cv" -> FloatSum(a) = 0
      [] m = "spd" -> MinOf(a) = 0
      [] m = "diffp" -> a[1] = 0
      [] m = "rd" -> StdIsZero(Tail(a))
      [] m = "kurt" -> StdIsZero(a)
      [] m = "skew" -> StdIsZero(a)
      [] m = "kstest" -> MinOf(a) = MaxOf(a)

\* a quotient of two exact values
Ratio(num, den) == [num |-> num, den |-> den]

\* the returned dict; std and the values derived from it are given by the
\* variance they are the root of
MetricResult(m, a) ==
    CASE m = "cv" ->
            [metric |-> m, n_bids |-> Len(a), mean |-> Ratio(FloatSum(a), Len(a)),
             variance |-> Ratio(VarianceNum(a), Len(a) * Len(a) * (Len(a) - 1))]
      [] m = "spd" ->
            [metric |-> m, n_bids |-> Len(a), min_bid |-> MinOf(a), max_bid |-> MaxOf(a),
             value |-> Ratio(MaxOf(a) - MinOf(a), MinOf(a))]
      [] m = "diffp" ->
            [metric |-> m, n_bids |-> Len(a), lowest_bid |-> a[1],
             second_lowest_bid |-> a[2], value |-> Ratio(a[2] - a[1], a[1])]
      [] m = "rd" ->
            [metric |-> m, n_bids |-> Len(a), lowest_bid |-> a[1],
             second_lowest_bid |-> a[2],
             variance_losing |-> Ratio(VarianceNum(Tail(a)),
                                      (Len(a) - 1) * (Len(a) - 1) * (Len(a) - 2))]
      [] m \in {"kurt", "skew"} ->
            [metric |-> m, n_bids |-> Len(a), mean |-> Ratio(FloatSum(a), Len(a)),
             variance |-> Ratio(VarianceNum(a), Len(a) * Len(a) * (Len(a) - 1))]
      [] m = "kstest" ->
            [metric |-> m, n_bids |-> Len(a), min_val |-> MinOf(a), max_val |-> MaxOf(a)]

\* mutant: the agent sorts the caller's list instead of a copy
ComputeBegin_SortsInPlace(k) ==
    LET f == comp[k] IN
    /\ f.pc = "start"
    /\ comp' = [comp EXCEPT ![k] =
         IF Len(final_bids) < AgentMinN(f.metric)
         THEN [f EXCEPT !.pc = "raised", !.error = InsufficientError(f.metric)]
         ELSE [f EXCEPT !.pc = "array", !.bids_array = ArrayOf(f.metric, final_bids)]]
    /\ final_bids' = SortAsc(final_bids)
    /\ UNCHANGED <<min_confidence, call, plan, memory>>

\* the cardinality check and the construction of the array
ComputeBegin(k) ==
    LET f == comp[k] IN
    /\ f.pc = "start"
    /\ comp' = [comp EXCEPT ![k] =
         IF Len(final_bids) < AgentMinN(f.metric)
         THEN [f EXCEPT !.pc = "raised", !.error = InsufficientError(f.metric)]
         ELSE [f EXCEPT !.pc = "array", !.bids_array = ArrayOf(f.metric, final_bids)]]
    /\ UNCHANGED <<min_confidence, call, plan, final_bids, memory>>

\* the divisor is zero
ComputeRaiseDegenerate(k) ==
    LET f == comp[k] IN
    /\ f.pc = "array"
    /\ Degenerate(f.metric, f.bids_array)
    /\ comp' = [comp EXCEPT ![k].pc = "raised",
                            ![k].error = DegenerateError(f.metric)]
    /\ UNCHANGED <<min_confidence, call, plan, final_bids, memory>>

\* the metric is computed and returned
ComputeReturn(k) ==
    LET f == comp[k] IN
    /\ f.pc = "array"
    /\ ~Degenerate(f.metric, f.bids_array)
    /\ comp' = [comp EXCEPT ![k].pc = "returned",
                            ![k].result = MetricResult(f.metric, f.bids_array)]
    /\ UNCHANGED <<min_confidence, call, plan, final_bids, memory>>

\* ------------------------------------------------------------------ planner
\* ScreeningPlannerAgent.run in screening mode, from STEP 2bis to the end of
\* STEP 7. The classifier's answer (intent, requested_metrics) and the answer
\* of the extraction tool are inputs; consolidate runs in call 1 and every
\* compute in comp 1, on the planner's thread.

\* STEP 2bis: an assessment asks for every metric
\* lines 295-296: an intent outside the three known ones is taken as rag
EffectiveIntent(p) ==
    IF p.intent \in {"rag", "screening", "screening_assessment"} THEN p.intent
    ELSE "rag"

\* the run passes STEP 1 and STEP 2: the classifier output is parsed and the
\* intent is not rag
ScreeningMode(p) == p.pc = "start" /\ p.parsed = "True" /\ EffectiveIntent(p) # "rag"

EffectiveMetrics(p) ==
    IF p.intent = "screening_assessment" THEN Metrics ELSE p.requested_metrics

Supported(m) == m \in Range(Metrics)

Response(ok, status, error, results) ==
    [ok |-> ok, status |-> status, error |-> error, results |-> results]

\* STEP 3, lines 345-356: a screening request that names no metric
PlanNoMetrics ==
    /\ ScreeningMode(plan)
    /\ plan.intent = "screening"
    /\ EffectiveMetrics(plan) = <<>>
    /\ plan' = [plan EXCEPT !.pc = "returned",
                            !.response = Response("True", "no_metrics", None, {})]
    /\ UNCHANGED <<min_confidence, call, comp, final_bids, memory>>

\* STEP 3, lines 358-363: a requested metric is not in SCREENING_METRICS
PlanUnsupported ==
    /\ ScreeningMode(plan)
    /\ ~(plan.intent = "screening" /\ EffectiveMetrics(plan) = <<>>)
    /\ \E m \in Range(EffectiveMetrics(plan)) : ~Supported(m)
    /\ plan' = [plan EXCEPT !.pc = "returned",
                            !.requested_metrics = EffectiveMetrics(plan),
                            !.response = Response("False", None,
                                                  "Unsupported screening metric", {})]
    /\ UNCHANGED <<min_confidence, call, comp, final_bids, memory>>

\* STEP 4, lines 368-379: the tool manager reports a failed execution
PlanExtractionFailed ==
    /\ ScreeningMode(plan)
    /\ ~(plan.intent = "screening" /\ EffectiveMetrics(plan) = <<>>)
    /\ \A m \in Range(EffectiveMetrics(plan)) : Supported(m)
    /\ plan.extraction.ok # "True"
    /\ plan' = [plan EXCEPT !.pc = "returned",
                            !.requested_metrics = EffectiveMetrics(plan),
                            !.executed = Append(plan.executed, "rag_extract_bids"),
                            !.response = Response("False", None,
                                                  "Bid extraction failed", {})]
    /\ UNCHANGED <<min_confidence, call, comp, final_bids, memory>>

\* STEP 4 and 5, lines 368-387: the payload of the tool goes to consolidate
PlanConsolidate ==
    /\ ScreeningMode(plan)
    /\ ~(plan.intent = "screening" /\ EffectiveMetrics(plan) = <<>>)
    /\ \A m \in Range(EffectiveMetrics(plan)) : Supported(m)
    /\ plan.extraction.ok = "True"
    /\ plan' = [plan EXCEPT !.pc = "consolidate",
                            !.requested_metrics = EffectiveMetrics(plan),
                            !.executed = Append(plan.executed, "rag_extract_bids")]
    /\ call' = [call EXCEPT ![1] = Frame(plan.extraction.result, "start")]
    /\ UNCHANGED <<min_confidence, comp, final_bids, memory>>

\* line 387: consolidate raised; run has no handler, the error leaves run
PlanConsolidateRaised ==
    /\ plan.pc = "consolidate"
    /\ call[1].pc = "raised"
    /\ plan' = [plan EXCEPT !.pc = "escaped", !.error = call[1].error]
    /\ UNCHANGED <<min_confidence, call, comp, final_bids, memory>>

\* lines 387-404: consolidate returned; final_bids is the list of its result
PlanConsolidated ==
    /\ plan.pc = "consolidate"
    /\ call[1].pc = "returned"
    /\ final_bids' = call[1].result.final_bids
    /\ plan' = IF call[1].result.final_bids = <<>>
               THEN [plan EXCEPT !.pc = "returned",
                                 !.response = Response("True", "no_valid_bids", None, {})]
               ELSE [plan EXCEPT !.pc = "check"]
    /\ UNCHANGED <<min_confidence, call, comp, memory>>

\* list(results.keys()): the metrics of the request, each at its first place
RECURSIVE KeysFrom(_, _, _)
KeysFrom(requested, i, keys) ==
    IF i > Len(requested) THEN keys
    ELSE KeysFrom(requested, i + 1,
                  IF requested[i] \in Range(keys) THEN keys
                  ELSE Append(keys, requested[i]))

KeysOf(requested) == KeysFrom(requested, 1, <<>>)

\* the patch of lines 469-477 (assessment) and of lines 571-582 (screening);
\* the modelled payloads carry no source_refs
StatePatch(p, consolidated) ==
    IF p.intent = "screening_assessment"
    THEN [last_mode |-> "screening_assessment",
          last_metrics |-> KeysOf(p.requested_metrics),
          n_bids |-> Len(consolidated.result.final_bids),
          confidence |-> consolidated.result.confidence]
    ELSE [last_mode |-> "screening",
          last_metrics |-> KeysOf(p.requested_metrics),
          n_bids |-> Len(consolidated.result.final_bids),
          currency |-> consolidated.result.currency,
          confidence |-> consolidated.result.confidence,
          last_decisions |-> consolidated.decisions,
          data_sources |-> <<>>]

\* mutant: the insufficient-bids exit records the run in the memory store
PlanCheckFail_Remembers ==
    /\ plan.pc = "check"
    /\ plan.checked < Len(plan.requested_metrics)
    /\ Len(final_bids) < PlannerMinN(plan.requested_metrics[plan.checked + 1])
    /\ plan' = [plan EXCEPT !.pc = "returned",
                            !.response = Response("True", "insufficient_bids", None, {})]
    /\ memory' = Merge(memory, StatePatch(plan, call[1]))
    /\ UNCHANGED <<min_confidence, call, comp, final_bids>>

\* STEP 6, lines 409-438: the metric under check needs more bids
PlanCheckFail ==
    /\ plan.pc = "check"
    /\ plan.checked < Len(plan.requested_metrics)
    /\ Len(final_bids) < PlannerMinN(plan.requested_metrics[plan.checked + 1])
    /\ plan' = [plan EXCEPT !.pc = "returned",
                            !.response = Response("True", "insufficient_bids", None, {})]
    /\ UNCHANGED <<min_confidence, call, comp, final_bids, memory>>

\* mutant: a metric that lacks bids is skipped instead of failing the batch
PlanCheckPass_SkipsShortMetric ==
    /\ plan.pc = "check"
    /\ plan.checked < Len(plan.requested_metrics)
    /\ plan' = [plan EXCEPT !.checked = plan.checked + 1]
    /\ UNCHANGED <<min_confidence, call, comp, final_bids, memory>>

\* STEP 6: the metric under check has enough bids
PlanCheckPass ==
    /\ plan.pc = "check"
    /\ plan.checked < Len(plan.requested_metrics)
    /\ Len(final_bids) >= PlannerMinN(plan.requested_metrics[plan.checked + 1])
    /\ plan' = [plan EXCEPT !.checked = plan.checked + 1]
    /\ UNCHANGED <<min_confidence, call, comp, final_bids, memory>>

\* STEP 7, lines 443-446: agent.compute(final_bids) for the next metric
PlanDispatch ==
    /\ plan.pc = "check"
    /\ plan.checked = Len(plan.requested_metrics)
    /\ plan.computed < Len(plan.requested_metrics)
    /\ comp[1].pc \in {"idle", "returned"}
    /\ plan' = [plan EXCEPT !.pc = "compute"]
    /\ comp' = [comp EXCEPT ![1] =
                   CompFrame(plan.requested_metrics[plan.computed + 1], "start")]
    /\ UNCHANGED <<min_confidence, call, final_bids, memory>>

\* results[metric] = ...: a later result of the same metric replaces the earlier
Store(results, r) == {x \in results : x.metric # r.metric} \cup {r}

\* line 446: compute returned
PlanCollect ==
    /\ plan.pc = "compute"
    /\ comp[1].pc = "returned"
    /\ plan' = [plan EXCEPT !.pc = "check",
                            !.computed = plan.computed + 1,
                            !.results = Store(plan.results, comp[1].result)]
    /\ UNCHANGED <<min_confidence, call, comp, final_bids, memory>>

\* line 446: compute raised; run has no handler, the error leaves run
PlanComputeRaised ==
    /\ plan.pc = "compute"
    /\ comp[1].pc = "raised"
    /\ plan' = [plan EXCEPT !.pc = "escaped", !.error = comp[1].error]
    /\ UNCHANGED <<min_confidence, call, comp, final_bids, memory>>

\* lines 448-599: every metric is computed; the state of the conversation is
\* updated and the results are returned
PlanReturn ==
    /\ plan.pc = "check"
    /\ plan.checked = Len(plan.requested_metrics)
    /\ plan.computed = Len(plan.requested_metrics)
    /\ plan' = [plan EXCEPT !.pc = "returned",
                            !.response = Response("True", "ok", None, plan.results)]
    /\ memory' = Merge(memory, StatePatch(plan, call[1]))
    /\ UNCHANGED <<min_confidence, call, comp, final_bids>>

\* lines 457-466 and 499-567: the interpretation agent or the explanation
\* request raises; run has no handler, the error leaves run
PlanAnswerRaised ==
    /\ plan.pc = "check"
    /\ plan.checked = Len(plan.requested_metrics)
    /\ plan.computed = Len(plan.requested_metrics)
    /\ plan' = [plan EXCEPT !.pc = "escaped", !.error = AnswerError]
    /\ UNCHANGED <<min_confidence, call, comp, final_bids, memory>>

\* lines 281-290: the classifier output is not JSON
PlanParseFailed ==
    /\ plan.pc = "start"
    /\ plan.parsed # "True"
    /\ plan' = [plan EXCEPT !.pc = "returned",
                            !.response = Response("False", None,
                                                  "Failed to parse planner output", {})]
    /\ UNCHANGED <<min_confidence, call, comp, final_bids, memory>>

\* lines 301-312: the tool manager reports a failed rag_query
PlanRagFailed ==
    /\ plan.pc = "start"
    /\ plan.parsed = "True"
    /\ EffectiveIntent(plan) = "rag"
    /\ plan.rag.ok # "True"
    /\ plan' = [plan EXCEPT !.pc = "returned",
                            !.executed = Append(plan.executed, "rag_query"),
                            !.response = Response("False", None, "RAG query failed", {})]
    /\ UNCHANGED <<min_confidence, call, comp, final_bids, memory>>

\* lines 301-333: rag_query answered; the state of the conversation is updated
PlanRagAnswered ==
    /\ plan.pc = "start"
    /\ plan.parsed = "True"
    /\ EffectiveIntent(plan) = "rag"
    /\ plan.rag.ok = "True"
    /\ plan' = [plan EXCEPT !.pc = "returned",
                            !.executed = Append(plan.executed, "rag_query"),
                            !.response = Response("True", "ok", None, {})]
    /\ memory' = Merge(memory, [last_mode |-> "rag",
                                last_question |-> Query,
                                last_answer |-> plan.rag.answer,
                                last_sources |-> plan.rag.sources])
    /\ UNCHANGED <<min_confidence, call, comp, final_bids>>

\* ------------------------------------------------- the screening pipeline
\* Either one run of the planner, or two direct compute calls on one list made
\* by a caller other than the planner.
MaxRequested == 2
MaxDirectLen == 4

Candidate(bidder, amount, confidence) ==
    [bidder |-> bidder, amount |-> amount, confidence |-> confidence,
     tax_included |-> "False", currency |-> None]

\* the candidates the extraction tool may return, in document order: five
\* amounts, one of them zero, a repeated amount and a candidate below the floor
MasterBids ==
    <<Candidate("A", 100, 90), Candidate("B", 200, 90), Candidate("C", 300, 90),
      Candidate("D", 400, 90), Candidate("E", 100, 90), Candidate("F", 0, 90),
      Candidate("G", 500, 30)>>

\* the elements of s at the positions S, in the order of s
RECURSIVE PickFrom(_, _, _)
PickFrom(s, S, i) ==
    IF i > Len(s) THEN <<>>
    ELSE (IF i \in S THEN <<s[i]>> ELSE <<>>) \o PickFrom(s, S, i + 1)

\* tool_manager.execute: a failed execution, a tool answer without "bids" (the
\* tool's error dict), or a non-empty list of candidates
Extractions ==
    {NoExtraction}
    \cup {[ok |-> "True", result |-> [kind |-> "nokey", items |-> <<>>]]}
    \cup {[ok |-> "True", result |-> [kind |-> "list", items |-> PickFrom(MasterBids, S, 1)]] :
            S \in (SUBSET (1..Len(MasterBids))) \ {{}}}

RequestNames == Range(Metrics) \cup {"hhi"}

InitPlanner ==
    /\ min_confidence = DefaultMinConfidence
    /\ memory = NoMemory
    /\ call = [c \in Calls |-> Frame([kind |-> "nokey", items |-> <<>>], "idle")]
    /\ comp = [k \in Comps |-> CompFrame(None, "idle")]
    /\ final_bids = <<>>
    /\ \E e \in Extractions :
         \/ \E r \in ListsOver(RequestNames, MaxRequested) :
                plan = PlanFrame("screening", r, e, "start")
         \/ plan = PlanFrame("screening_assessment", <<>>, e, "start")

DirectAmounts == {0, 100, 200}

InitDirect ==
    /\ min_confidence = DefaultMinConfidence
    /\ memory = NoMemory
    /\ call = [c \in Calls |-> Frame([kind |-> "nokey", items |-> <<>>], "idle")]
    /\ plan = PlanFrame(None, <<>>, NoExtraction, "idle")
    /\ final_bids \in ListsOver(DirectAmounts, MaxDirectLen)
    /\ \E m1, m2 \in Range(Metrics) :
         comp = [k \in Comps |-> CompFrame(IF k = 1 THEN m1 ELSE m2, "start")]

InitScreening == InitPlanner \/ InitDirect

NextScreening ==
    \/ PlanNoMetrics
    \/ PlanUnsupported
    \/ PlanExtractionFailed
    \/ PlanConsolidate
    \/ RaiseEmpty(1)
    \/ Begin(1)
    \/ DiscardGroup(1)
    \/ DuplicateGroup(1)
    \/ AcceptGroup(1)
    \/ RaiseNoValid(1)
    \/ Return(1)
    \/ PlanConsolidateRaised
    \/ PlanConsolidated
    \/ PlanCheckFail
    \/ PlanCheckPass
    \/ PlanDispatch
    \/ PlanCollect
    \/ PlanComputeRaised
    \/ PlanReturn
    \/ \E k \in Comps : ComputeBegin(k)
    \/ \E k \in Comps : ComputeRaiseDegenerate(k)
    \/ \E k \in Comps : ComputeReturn(k)

SpecScreening == InitScreening /\ [][NextScreening]_vars

\* a step of the consolidate call c / of the compute call k
StepOfCall(c) == call[c].pc \in {"start", "loop"} /\ call'[c] # call[c]
StepOfCompute(k) == comp[k].pc \in {"start", "array"} /\ comp'[k] # comp[k]

\* C17: consolidate and every metric agent's compute treat the caller's list as
\* read-only. No step of a consolidate call changes the payload it was given,
\* and the list the call iterates over stays the payload's list; no step of a
\* compute call changes the list it was given; so after the call, returned or
\* raised, the list has the same elements in the same order as before.
C17_InputsReadOnly ==
    [][/\ \A c \in Calls :
            StepOfCall(c) =>
                /\ call'[c].bid_payload = call[c].bid_payload
                /\ call'[c].bids \in {<<>>, BidsOf(call[c].bid_payload)}
       /\ (\E k \in Comps : StepOfCompute(k)) => final_bids' = final_bids]_vars

\* the planner's consolidate call returned a list that is not in ascending
\* order and the agent that sorts its array has returned on it
C17_Witness ==
    /\ call[1].pc = "returned"
    /\ final_bids = call[1].result.final_bids
    /\ final_bids # SortAsc(final_bids)
    /\ comp[1].pc = "returned"
    /\ comp[1].metric = "rd"
    /\ comp[1].bids_array = SortAsc(final_bids)

\* ------------------------------------------------------- concurrent calls
\* Two threads call consolidate on the same agent at the same time, or two
\* threads call the compute of two metric agents on the same list; the steps
\* of the two calls interleave in any order.
MaxConcLen == 2

ConcCandidates ==
    {[bidder |-> "A", amount |-> 100, confidence |-> 90,
      tax_included |-> "False", currency |-> None],
     [bidder |-> "A", amount |-> 200, confidence |-> 90,
      tax_included |-> "True", currency |-> None],
     [bidder |-> None, amount |-> 100, confidence |-> 90,
      tax_included |-> "False", currency |-> None],
     [bidder |-> None, amount |-> 200, confidence |-> 40,
      tax_included |-> "False", currency |-> None],
     [bidder |-> "A", amount |-> 100, confidence |-> 30,
      tax_included |-> "True", currency |-> None]}

InitConc ==
    /\ min_confidence = DefaultMinConfidence
    /\ memory = NoMemory
    /\ plan = PlanFrame(None, <<>>, NoExtraction, "idle")
    /\ comp = [k \in Comps |-> CompFrame(None, "idle")]
    /\ final_bids = <<>>
    /\ \E p, q \in ListsOver(ConcCandidates, MaxConcLen) :
         call = [c \in Calls |->
                   Frame([kind |-> "list", items |-> IF c = 1 THEN p ELSE q], "start")]

NextConc ==
    \/ \E c \in Calls : RaiseEmpty(c)
    \/ \E c \in Calls : Begin(c)
    \/ \E c \in Calls : DiscardGroup(c)
    \/ \E c \in Calls : DuplicateGroup(c)
    \/ \E c \in Calls : AcceptGroup(c)
    \/ \E c \in Calls : RaiseNoValid(c)
    \/ \E c \in Calls : Return(c)
    \/ \E k \in Comps : ComputeBegin(k)
    \/ \E k \in Comps : ComputeRaiseDegenerate(k)
    \/ \E k \in Comps : ComputeReturn(k)

InitConcurrent == InitConc \/ InitDirect

SpecConc == InitConcurrent /\ [][NextConc]_vars

\* the accumulators of consolidate before the first group
NoGroupsYet ==
    [final_bids |-> <<>>, used_amounts |-> {}, confidences |-> <<>>,
     decisions |-> <<>>, discarded |-> <<>>, currency |-> None]

\* the loop of lines 59-123 run from group k on with nothing else running
RECURSIVE GroupsAlone(_, _, _, _)
GroupsAlone(bids, grouped, k, acc) ==
    IF k > Len(grouped) THEN acc
    ELSE
      LET g == grouped[k]
          valid == ValidOf(bids, g.candidates, min_confidence)
          with_tax == TaxIncludedOf(bids, valid)
          pool == IF with_tax # <<>> THEN with_tax ELSE valid
          selected == SelectedOf(bids, pool)
          amount == ToFloat(bids[selected].amount)
          logged == IF with_tax # <<>>
                    THEN Append(acc.decisions, Decision(g.bidder, "preferidas_iva", NoAmount))
                    ELSE acc.decisions
      IN GroupsAlone(bids, grouped, k + 1,
           IF valid = <<>>
           THEN [acc EXCEPT
                   !.discarded = @ \o g.candidates,
                   !.decisions = Append(@, Decision(g.bidder, "descartado_confianza",
                                                    NoAmount))]
           ELSE IF amount \in acc.used_amounts
           THEN [acc EXCEPT
                   !.discarded = Append(@, selected),
                   !.decisions = Append(logged, Decision(g.bidder, "duplicado", amount))]
           ELSE [acc EXCEPT
                   !.final_bids = Append(@, amount),
                   !.used_amounts = @ \cup {amount},
                   !.confidences = Append(@, ConfidenceOr(bids[selected],
                                                          DefaultRecordedConfidence)),
                   !.decisions = Append(logged,
                        Decision(g.bidder,
                                 IF bids[selected].tax_included = "True"
                                 THEN "seleccionado_con_iva" ELSE "seleccionado_sin_iva",
                                 amount)),
                   !.currency = CurrencyAfter(@, bids[selected]),
                   !.discarded = @ \o RestOf(g.candidates, selected)])

\* what consolidate(payload) raises or returns when it runs alone
ConsolidateAlone(payload) ==
    IF ~IsList(payload) \/ BidsOf(payload) = <<>>
    THEN [pc |-> "raised", error |-> EmptyInputError, result |-> NoResult,
          decisions |-> <<>>, discarded |-> <<>>]
    ELSE LET bids == BidsOf(payload)
             acc == GroupsAlone(bids, GroupByBidder(bids), 1, NoGroupsYet)
         IN IF acc.final_bids = <<>>
            THEN [pc |-> "raised", error |-> NoValidBidsError, result |-> NoResult,
                  decisions |-> acc.decisions, discarded |-> acc.discarded]
            ELSE [pc |-> "returned", error |-> NoError,
                  result |-> [final_bids |-> acc.final_bids,
                              currency |-> acc.currency,
                              confidence |-> OverallConfidence(acc.confidences)],
                  decisions |-> acc.decisions, discarded |-> acc.discarded]

\* what the compute of metric m raises or returns on bids when it runs alone
ComputeAlone(m, bids) ==
    IF Len(bids) < AgentMinN(m)
    THEN [pc |-> "raised", error |-> InsufficientError(m), result |-> NoMetricResult]
    ELSE IF Degenerate(m, ArrayOf(m, bids))
    THEN [pc |-> "raised", error |-> DegenerateError(m), result |-> NoMetricResult]
    ELSE [pc |-> "returned", error |-> NoError,
          result |-> MetricResult(m, ArrayOf(m, bids))]

\* C18: No interference between concurrent invocations. However the steps of
\* two consolidate calls on one agent interleave, each call ends as it ends when
\* run alone on its payload (same raise or return, same result, decisions and
\* discarded); however the steps of two compute calls on one list interleave,
\* each ends as it ends when run alone on that list.
C18_NoInterference ==
    /\ \A c \in Calls :
          LET f == call[c]
              alone == ConsolidateAlone(f.bid_payload)
          IN Finished(f) =>
                /\ f.pc = alone.pc
                /\ f.error = alone.error
                /\ f.result = alone.result
                /\ f.decisions = alone.decisions
                /\ f.discarded = alone.discarded
    /\ \A k \in Comps :
          LET f == comp[k]
              alone == ComputeAlone(f.metric, final_bids)
          IN f.pc \in {"returned", "raised"} =>
                /\ f.pc = alone.pc
                /\ f.error = alone.error
                /\ f.result = alone.result

\* both calls have returned, the second one began after the first had accepted
\* an amount that the second accepts too
C18_Witness ==
    /\ call[1].pc = "returned"
    /\ call[2].pc = "returned"
    /\ call[1].bid_payload # call[2].bid_payload
    /\ \E a \in Range(call[1].final_bids) : a \in Range(call[2].final_bids)
    /\ \E d \in Range(call[2].decisions) : d.kind = "duplicado"

\* a run of the planner has reached its cardinality check
Checking == plan.pc \in {"check", "compute", "returned", "escaped"} /\ call[1].pc = "returned"

\* every requested metric has the number of bids it needs
EnoughForAll ==
    \A m \in Range(plan.requested_metrics) : Len(final_bids) >= PlannerMinN(m)

\* C19: All-or-nothing dispatch. In a run of the planner no compute is invoked
\* unless final_bids has at least min_n elements for every requested metric;
\* when one requested metric lacks bids the run returns insufficient_bids with
\* no metric result, computed or returned, even for the requested metrics that
\* have enough bids.
C19_AllOrNothing ==
    plan.pc # "idle" =>
        /\ comp[1].pc # "idle" => Checking /\ EnoughForAll
        /\ comp[2].pc = "idle"
        /\ (Checking /\ ~EnoughForAll) =>
              /\ plan.results = {}
              /\ plan.computed = 0
              /\ plan.pc \in {"check", "returned"}
              /\ plan.pc = "returned" =>
                    plan.response = Response("True", "insufficient_bids", None, {})

\* the run returned insufficient_bids on the second requested metric after the
\* first one passed the check
C19_Witness ==
    /\ plan.pc = "returned"
    /\ plan.response.status = "insufficient_bids"
    /\ plan.checked = 1
    /\ Len(final_bids) >= PlannerMinN(plan.requested_metrics[1])
    /\ comp[1].pc = "idle"

\* the minimum number of bids of each metric
ClaimedMinimum ==
    [cv |-> 2, spd |-> 2, diffp |-> 2, rd |-> 3, skew |-> 3, kurt |-> 4, kstest |-> 3]

\* the compute call k has gone past its first check
PastCheck(k) == comp[k].pc \in {"array", "returned", "raised"}

\* C20: Cardinality preconditions. Each metric agent raises its
\* insufficient-data error, before it computes anything, exactly when it is given
\* fewer bids than its minimum (CV 2, SPD 2, DIFFP 2, RD 3, SKEW 3, KURT 4,
\* KSTEST 3); the planner's min_n of each metric is that minimum, so in a run of
\* the planner no compute raises the insufficient-data error.
C20_CardinalityPreconditions ==
    /\ \A m \in Range(Metrics) :
          AgentMinN(m) = ClaimedMinimum[m] /\ PlannerMinN(m) = ClaimedMinimum[m]
    /\ \A k \in Comps :
          LET f == comp[k] IN
          PastCheck(k) =>
              IF Len(final_bids) < ClaimedMinimum[f.metric]
              THEN /\ f.pc = "raised"
                   /\ f.error = InsufficientError(f.metric)
                   /\ f.bids_array = <<>>
                   /\ f.result = NoMetricResult
              ELSE f.error # InsufficientError(f.metric)
    /\ plan.pc # "idle" =>
          /\ plan.error.msg # InsufficientError(comp[1].metric).msg
          /\ comp[1].error.msg # InsufficientError(comp[1].metric).msg

\* on a list of three bids the kurtosis agent has raised its insufficient-data
\* error and the relative-distance agent has returned
C20_Witness ==
    /\ Len(final_bids) = 3
    /\ comp[1].metric = "kurt"
    /\ comp[1].pc = "raised"
    /\ comp[1].error = InsufficientError("kurt")
    /\ comp[2].metric = "rd"
    /\ comp[2].pc = "returned"

\* ------------------------------------------- floats that sums do not keep
\* One direct compute call on a list that may hold a float whose significand
\* uses every bit of the format (as 0.1 does in float64), so that a sum of
\* three of them is rounded.
MaxFloatLen == 4

FloatAmounts == {0, 100, 200, 2734}

InitFloat ==
    /\ min_confidence = DefaultMinConfidence
    /\ memory = NoMemory
    /\ call = [c \in Calls |-> Frame([kind |-> "nokey", items |-> <<>>], "idle")]
    /\ plan = PlanFrame(None, <<>>, NoExtraction, "idle")
    /\ final_bids \in ListsOver(FloatAmounts, MaxFloatLen)
    /\ \E m \in Range(Metrics) :
         comp = [k \in Comps |->
                   IF k = 1 THEN CompFrame(m, "start") ELSE CompFrame(None, "idle")]

NextFloat ==
    \/ \E k \in Comps : ComputeBegin(k)
    \/ \E k \in Comps : ComputeRaiseDegenerate(k)
    \/ \E k \in Comps : ComputeReturn(k)

SpecFloat == InitFloat /\ [][NextFloat]_vars

AllEqual(a) == \A i, j \in 1..Len(a) : a[i] = a[j]

\* the divisor of metric m on bids is zero: the mean (CV), the minimum (SPD,
\* DIFFP), the sample std of all bids but the lowest (RD), the sample std (SKEW,
\* KURT), the range (KSTEST)
ZeroDivisor(m, bids) ==
    CASE m = "cv" -> SumSeq(bids) = 0
      [] m \in {"spd", "diffp"} -> MinOf(bids) = 0
      [] m = "rd" -> AllEqual(Tail(SortAsc(bids)))
      [] m \in {"skew", "kurt"} -> AllEqual(bids)
      [] m = "kstest" -> MaxOf(bids) = MinOf(bids)

\* C21: Degeneracy preconditions. Every metric agent given enough bids raises
\* an error and returns no result whenever its divisor is zero; no agent returns
\* a value obtained by dividing by zero.
C21_ZeroDivisorRaises ==
    \A k \in Comps :
        LET f == comp[k] IN
        (/\ f.pc \in {"returned", "raised"}
         /\ Len(final_bids) >= ClaimedMinimum[f.metric]
         /\ ZeroDivisor(f.metric, final_bids)) =>
            /\ f.pc = "raised"
            /\ f.error = DegenerateError(f.metric)
            /\ f.result = NoMetricResult

\* ------------------------------------------------------------- DIFFP result
\* the list without its element at index i
Without(a, i) == SubSeq(a, 1, i - 1) \o SubSeq(a, i + 1, Len(a))

Lowest(bids) == MinOf(bids)

\* the smallest of what is left once one occurrence of the lowest is taken out
SecondLowest(bids) ==
    MinOf(Without(bids, CHOOSE i \in 1..Len(bids) : bids[i] = MinOf(bids)))

\* C22: DIFFP result. For every list of at least two bids whose lowest value is
\* non-zero, DIFFPAgent.compute returns (second_lowest - lowest) / lowest of the
\* two smallest elements of the list, whatever the order of the list; two equal
\* lowest bids give 0.
C22_DiffpOfTwoLowest ==
    \A k \in Comps :
        LET f == comp[k] IN
        (/\ f.metric = "diffp"
         /\ f.pc \in {"returned", "raised"}
         /\ Len(final_bids) >= 2
         /\ Lowest(final_bids) # 0) =>
            /\ f.pc = "returned"
            /\ f.result.lowest_bid = Lowest(final_bids)
            /\ f.result.second_lowest_bid = SecondLowest(final_bids)
            /\ f.result.value = Ratio(SecondLowest(final_bids) - Lowest(final_bids),
                                      Lowest(final_bids))
            /\ (SecondLowest(final_bids) = Lowest(final_bids) => f.result.value.num = 0)

\* DIFFP has returned 1.0 for three distinct bids given in descending order
C22_Witness ==
    \E k \in Comps :
        /\ comp[k].metric = "diffp"
        /\ comp[k].pc = "returned"
        /\ final_bids = <<2734, 200, 100>>
        /\ comp[k].result.value = Ratio(100, 100)

\* --------------------------------------------- filter before tax preference
\* the candidates of a group that declare tax_included but are under the floor
TaxIncludedBelowFloor(f, g) ==
    {i \in Range(g.candidates) :
        /\ f.bids[i].tax_included = "True"
        /\ ConfidenceOr(f.bids[i], 0) < min_confidence}

\* the last iteration recorded the 'preference applied' string
LastPreferred(f) ==
    /\ Len(f.decisions) >= 2
    /\ f.decisions[Len(f.decisions) - 1].kind = "preferidas_iva"

\* C23: The confidence filter is applied before the tax-inclusion preference. A
\* candidate with tax_included true and confidence below min_confidence is not
\* selected and does not activate the preference: when the group also has a
\* survivor and no survivor is tax-included, a survivor that is not tax-included
\* is selected and no 'preference applied' string is recorded for the group.
C23_FilterBeforePreference ==
    \A c \in Calls :
        LET f == call[c]
            g == LastGroup(f)
        IN
        (InLoop(f) /\ TaxIncludedBelowFloor(f, g) # {}) =>
            /\ LastSelected(f) => f.selected \notin TaxIncludedBelowFloor(f, g)
            /\ (/\ Survivors(f, g) # {}
                /\ \A i \in Survivors(f, g) : f.bids[i].tax_included # "True") =>
                   /\ LastSelected(f)
                   /\ f.selected \in Survivors(f, g)
                   /\ f.bids[f.selected].tax_included # "True"
                   /\ ~LastPreferred(f)

\* a group holding a numeric tax-included candidate under the floor had its
\* surviving candidate without tax accepted
C23_Witness ==
    \E c \in Calls :
        LET f == call[c] IN
        /\ LastAccepted(f)
        /\ \E i \in TaxIncludedBelowFloor(f, LastGroup(f)) : f.bids[i].amount # NoAmount
        /\ f.bids[f.selected].tax_included = "False"
        /\ ~LastPreferred(f)

\* ---------------------------------------------- no fallback after a duplicate
\* the candidate step 4 of the algorithm selects in group g: the first, in input
\* order, of the pool candidates with the pool's maximum confidence
ClaimSelected(f, g) ==
    CHOOSE i \in TopOfPool(f, g) : \A j \in TopOfPool(f, g) : i <= j

\* the survivors of g whose amount differs from the selected one and is not in
\* final_bids
FreshSurvivors(f, g) ==
    {i \in Survivors(f, g) :
        /\ f.bids[i].amount # f.bids[ClaimSelected(f, g)].amount
        /\ f.bids[i].amount \notin Range(f.final_bids)}

\* C24: No fallback after a duplicate. When the candidate selected for a group
\* has an amount already accepted from an earlier group, the iteration leaves
\* final_bids as it was and records the duplicate, even if the group has another
\* surviving candidate with a different amount that was not accepted yet; the
\* group is not processed again.
C24_NoFallbackAfterDuplicate ==
    [][\A c \in Calls :
          LET f == call[c] IN
          (/\ HasNext(f)
           /\ call'[c] # f
           /\ Survivors(f, NextGroup(f)) # {}
           /\ f.bids[ClaimSelected(f, NextGroup(f))].amount \in Range(f.final_bids)) =>
              /\ call'[c].final_bids = f.final_bids
              /\ call'[c].used_amounts = f.used_amounts
              /\ call'[c].confidences = f.confidences
              /\ call'[c].done = f.done + 1
              /\ Last(call'[c].decisions).kind = "duplicado"
              /\ Len(Outcomes(call'[c])) = Len(Outcomes(f)) + 1]_vars

\* the last group was discarded as a duplicate although another of its survivors
\* carries an amount that is not in final_bids
C24_Witness ==
    \E c \in Calls :
        LET f == call[c] IN
        /\ InLoop(f)
        /\ Last(f.decisions).kind = "duplicado"
        /\ FreshSurvivors(f, LastGroup(f)) # {}

\* ------------------------------------------ the planner when nothing is valid
\* run is over: it returned a response or an exception left it
RunOver == plan.pc \in {"returned", "escaped"}

\* the consolidation of the run went through every group and accepted no bid
AcceptedNothing ==
    /\ call[1].grouped # <<>>
    /\ call[1].done = Len(call[1].grouped)
    /\ call[1].final_bids = <<>>

\* C25: When consolidation accepts no bid (every group discarded), run ends by
\* returning a result with ok = true and status 'no_valid_bids', no metric agent
\* is invoked and no exception escapes run.
C25_NoValidBidsIsReturned ==
    (RunOver /\ AcceptedNothing) =>
        /\ plan.pc = "returned"
        /\ plan.response.ok = "True"
        /\ plan.response.status = "no_valid_bids"
        /\ \A k \in Comps : comp[k].pc = "idle"

\* ------------------------------------- the planner when the tool finds nothing
\* the request passes STEP 3: it names metrics and all of them are supported
ReachesExtraction ==
    /\ plan.pc # "idle"
    /\ ~(plan.intent = "screening" /\ EffectiveMetrics(plan) = <<>>)
    /\ \A m \in Range(EffectiveMetrics(plan)) : Supported(m)

\* the tool produced no candidates: its execution failed or its answer has no
\* "bids" list
NoUsableCandidates ==
    plan.extraction.ok # "True" \/ plan.extraction.result.kind = "nokey"

\* C26: When the bid-extraction tool produces no usable candidates, run returns
\* ok = false with error 'Bid extraction failed' and never calls the
\* consolidator with a payload that has no 'bids' list.
C26_ExtractionFailureIsReported ==
    /\ (plan.pc # "idle" /\ call[1].pc # "idle") => call[1].bid_payload.kind # "nokey"
    /\ (RunOver /\ ReachesExtraction /\ NoUsableCandidates) =>
           /\ plan.pc = "returned"
           /\ plan.response.ok = "False"
           /\ plan.response.error = "Bid extraction failed"

\* ------------------------------------- deduplication never empties the result
\* the groups processed so far that have a survivor of the confidence filter
SurvivingGroups(f) == {j \in 1..f.done : Survivors(f, f.grouped[j]) # {}}

\* some candidate of the input has a numeric amount and enough confidence
AnySurvivor(f) ==
    \E i \in 1..Len(f.bids) :
        f.bids[i].amount # NoAmount /\ ConfidenceOr(f.bids[i], 0) >= min_confidence

\* C27: Deduplication alone can never empty the result. The first group with a
\* surviving candidate is always accepted; if some candidate of the input has a
\* numeric amount and confidence >= min_confidence, consolidate returns a
\* non-empty final_bids; the no-valid-bids error is raised if and only if no
\* candidate of any group survives the confidence filter.
C27_DedupNeverEmpties ==
    \A c \in Calls :
        LET f == call[c] IN
        /\ (InLoop(f) /\ SurvivingGroups(f) # {}) =>
              LET first == CHOOSE j \in SurvivingGroups(f) :
                               \A k \in SurvivingGroups(f) : j <= k
              IN /\ f.final_bids # <<>>
                 /\ Outcomes(f)[first].bidder = f.grouped[first].bidder
                 /\ IsAcceptance(Outcomes(f)[first])
                 /\ Outcomes(f)[first].amount = f.final_bids[1]
        /\ (Finished(f) /\ f.bids # <<>>) =>
              IF AnySurvivor(f)
              THEN f.pc = "returned" /\ f.result.final_bids # <<>>
              ELSE f.pc = "raised" /\ f.error = NoValidBidsError

\* a call returned one bid although a later group with a survivor was discarded
\* as a duplicate
C27_Witness ==
    \E c \in Calls :
        LET f == call[c] IN
        /\ f.pc = "returned"
        /\ Len(f.result.final_bids) = 1
        /\ Cardinality(SurvivingGroups(f)) = 2
        /\ Last(f.decisions).kind = "duplicado"

\* ------------------------------------------- planner runs on signed amounts
\* the candidates the extraction tool may return when the documents hold a
\* negative amount: a pair of opposite amounts, zero, a repeated amount and a
\* candidate below the floor
SignedBids ==
    <<Candidate("A", 0 - 100, 90), Candidate("B", 100, 90), Candidate("C", 0, 90),
      Candidate("D", 200, 90), Candidate("E", 100, 90), Candidate("G", 500, 30)>>

SignedExtractions ==
    {NoExtraction}
    \cup {[ok |-> "True", result |-> [kind |-> "nokey", items |-> <<>>]]}
    \cup {[ok |-> "True", result |-> [kind |-> "list", items |-> PickFrom(SignedBids, S, 1)]] :
            S \in (SUBSET (1..Len(SignedBids))) \ {{}}}

InitSigned ==
    /\ min_confidence = DefaultMinConfidence
    /\ memory = NoMemory
    /\ call = [c \in Calls |-> Frame([kind |-> "nokey", items |-> <<>>], "idle")]
    /\ comp = [k \in Comps |-> CompFrame(None, "idle")]
    /\ final_bids = <<>>
    /\ \E e \in SignedExtractions :
         \/ \E r \in ListsOver(RequestNames, MaxRequested) :
                plan = PlanFrame("screening", r, e, "start")
         \/ plan = PlanFrame("screening_assessment", <<>>, e, "start")

NextSigned ==
    \/ PlanNoMetrics
    \/ PlanUnsupported
    \/ PlanExtractionFailed
    \/ PlanConsolidate
    \/ RaiseEmpty(1)
    \/ Begin(1)
    \/ DiscardGroup(1)
    \/ DuplicateGroup(1)
    \/ AcceptGroup(1)
    \/ RaiseNoValid(1)
    \/ Return(1)
    \/ PlanConsolidateRaised
    \/ PlanConsolidated
    \/ PlanCheckFail
    \/ PlanCheckPass
    \/ PlanDispatch
    \/ ComputeBegin(1)
    \/ ComputeRaiseDegenerate(1)
    \/ ComputeReturn(1)
    \/ PlanCollect
    \/ PlanComputeRaised
    \/ PlanReturn

SpecSigned == InitSigned /\ [][NextSigned]_vars

PairwiseDistinct(s) == \A i, j \in 1..Len(s) : i # j => s[i] # s[j]

ZeroSpreadMetrics == {"skew", "kurt", "kstest", "rd"}

\* the planner has called the agent of a metric on final_bids
Dispatched == plan.pc # "idle" /\ comp[1].pc # "idle"

\* C28: In the planner pipeline, once the cardinality check has passed, the
\* zero-spread errors of SKEW, KURT, KSTEST and RD are unreachable, because the
\* final_bids the agents receive come from consolidate and are pairwise
\* distinct; the only errors an agent raises are the zero-mean error of CV and
\* the zero-minimum errors of SPD and DIFFP.
C28_ZeroSpreadUnreachable ==
    Dispatched =>
        /\ final_bids = call[1].result.final_bids
        /\ PairwiseDistinct(final_bids)
        /\ Len(final_bids) >= ClaimedMinimum[comp[1].metric]
        /\ comp[1].metric \in ZeroSpreadMetrics =>
              /\ ~ZeroDivisor(comp[1].metric, final_bids)
              /\ comp[1].pc # "raised"
        /\ comp[1].pc = "raised" =>
              /\ comp[1].metric \in {"cv", "spd", "diffp"}
              /\ ZeroDivisor(comp[1].metric, final_bids)
              /\ comp[1].error = DegenerateError(comp[1].metric)

\* a planner run ended on the zero-mean error of CV for two opposite bids
C28_Witness ==
    /\ plan.pc = "escaped"
    /\ comp[1].metric = "cv"
    /\ comp[1].pc = "raised"
    /\ final_bids = <<0 - 100, 100>>

\* a planner run ended on the zero-minimum error of SPD or DIFFP
ZeroMinimumReached ==
    /\ plan.pc = "escaped"
    /\ comp[1].metric \in {"spd", "diffp"}
    /\ comp[1].pc = "raised"

\* ------------------------------------------------- the conversation memory
\* Whole runs of the planner, from the classifier output on, on a conversation
\* that has no stored state or the state an earlier rag answer left.
MemoryStates ==
    {NoMemory,
     [last_mode |-> "rag", last_question |-> "earlier", last_answer |-> "a0",
      last_sources |-> <<>>]}

\* the answers of tool_manager.execute("rag_query")
RagAnswers ==
    {[ok |-> "False", answer |-> None, sources |-> <<>>],
     [ok |-> "True", answer |-> "a1", sources |-> <<"s1">>]}

\* the lists of candidates the tool returns: one below the floor, two bids, a
\* repeated amount, four bids, and all of them
MemoryExtractions ==
    {NoExtraction}
    \cup {[ok |-> "True", result |-> [kind |-> "nokey", items |-> <<>>]]}
    \cup {[ok |-> "True", result |-> [kind |-> "list", items |-> PickFrom(MasterBids, S, 1)]] :
            S \in {{7}, {1, 2}, {1, 5}, {1, 2, 3, 4}, 1..7}}

InitMemory ==
    /\ min_confidence = DefaultMinConfidence
    /\ memory \in MemoryStates
    /\ call = [c \in Calls |-> Frame([kind |-> "nokey", items |-> <<>>], "idle")]
    /\ comp = [k \in Comps |-> CompFrame(None, "idle")]
    /\ final_bids = <<>>
    /\ \/ plan = [PlanFrame(None, <<>>, NoExtraction, "start") EXCEPT !.parsed = "False"]
       \/ \E i \in {"rag", "chat"}, a \in RagAnswers, r \in ListsOver(RequestNames, 1) :
             plan = [PlanFrame(i, r, NoExtraction, "start") EXCEPT !.rag = a]
       \/ \E e \in MemoryExtractions :
             \/ \E r \in ListsOver(RequestNames, MaxRequested) :
                    plan = PlanFrame("screening", r, e, "start")
             \/ plan = PlanFrame("screening_assessment", <<>>, e, "start")

NextMemory ==
    \/ PlanParseFailed
    \/ PlanRagFailed
    \/ PlanRagAnswered
    \/ PlanNoMetrics
    \/ PlanUnsupported
    \/ PlanExtractionFailed
    \/ PlanConsolidate
    \/ RaiseEmpty(1)
    \/ Begin(1)
    \/ DiscardGroup(1)
    \/ DuplicateGroup(1)
    \/ AcceptGroup(1)
    \/ RaiseNoValid(1)
    \/ Return(1)
    \/ PlanConsolidateRaised
    \/ PlanConsolidated
    \/ PlanCheckFail
    \/ PlanCheckPass
    \/ PlanDispatch
    \/ ComputeBegin(1)
    \/ ComputeRaiseDegenerate(1)
    \/ ComputeReturn(1)
    \/ PlanCollect
    \/ PlanComputeRaised
    \/ PlanAnswerRaised
    \/ PlanReturn

SpecMemory == InitMemory /\ [][NextMemory]_vars

\* run has returned a completed answer: a rag answer, the metrics of a screening
\* request or the assessment
CompletedAnswer(p) ==
    /\ p.pc = "returned"
    /\ p.response.ok = "True"
    /\ p.response.status = "ok"

\* the exits of run that are not a completed answer
OtherExits ==
    {"Failed to parse planner output", "RAG query failed",
     "Unsupported screening metric", "Bid extraction failed"}

NotAccepted(f) ==
    {i \in 1..Len(f.bids) :
        /\ \E j \in 1..f.done : i \in Range(f.grouped[j].candidates)
        /\ i \in Range(f.discarded)}

\* C30: Loop invariant of consolidate. After each processed group the dedup set
\* used_amounts equals the set of values in final_bids, and final_bids and the
\* list of recorded confidences have the same length, at most the number of
\* groups processed so far; the amounts of filtered-out or non-selected
\* candidates never enter the dedup set: a selection is discarded as a
\* duplicate only for an amount that was accepted.
C30_LoopInvariant ==
    \A c \in Calls :
        LET f == call[c] IN
        f.pc \in {"loop", "returned", "raised"} =>
            /\ f.used_amounts = Range(f.final_bids)
            /\ Len(f.final_bids) = Len(f.confidences)
            /\ Len(f.final_bids) <= f.done
            /\ f.used_amounts = {d.amount : d \in Range(Acceptances(f))}
            /\ \A k \in 1..Len(f.decisions) :
                  f.decisions[k].kind = "duplicado" =>
                      \E j \in 1..(k - 1) :
                          /\ IsAcceptance(f.decisions[j])
                          /\ f.decisions[j].amount = f.decisions[k].amount

\* the last group was accepted with an amount that a candidate of an earlier
\* group, not accepted, carries too
C30_Witness ==
    \E c \in Calls :
        LET f == call[c] IN
        /\ LastAccepted(f)
        /\ f.done >= 2
        /\ \E i \in NotAccepted(f) :
              /\ i \notin Range(LastGroup(f).candidates)
              /\ f.bids[i].amount = f.amount
====
